---------------------------- MODULE Spec2Model ----------------------------
(***************************************************************************)
(* Model of the proctoring hook (src/src/hooks/useProctoring.ts), of the   *)
(* frame sampler that drives it (src/src/components/VideoMonitor.tsx) and  *)
(* of the observer that renders the violation list (AlertsPanel,           *)
(* src/unnamed/part_001).  Time is the value of Date.now() in              *)
(* milliseconds; it is observed on a grid whose step is the greatest       *)
(* common divisor of the program's delays and cooldowns.                   *)
(***************************************************************************)
EXTENDS Integers, Sequences, FiniteSets, TLC

VARIABLES
  now,                \* Date.now()
  isDetectorReady,    \* useState isDetectorReady
  isRecording,        \* monitoringStatus.isRecording
  faceDetected,       \* monitoringStatus.faceDetected
  objectsDetected,    \* monitoringStatus.objectsDetected
  violations,         \* sessionData.violations
  integrityScore,     \* sessionData.integrityScore
  startTime,          \* sessionData.startTime
  endTime,            \* sessionData.endTime (0: undefined)
  totalDuration,      \* sessionData.totalDuration
  violationTimeouts,  \* ref Map<ViolationType, timer handle>
  hostTimers,         \* the timers armed with setTimeout and not yet fired or cleared
  objectCooldowns,    \* ref Map<label, ms>
  violationCooldowns, \* ref Map<ViolationType, ms>
  inflight,           \* number of frames captured whose detection has not completed
  tickPending,        \* the sampling interval has fired and its callback has not run yet
  emitted,            \* history: every emission as [type, timestamp, live], live
                      \* until the next stopMonitoring call
  noFaceSince,        \* history: instant of the first frame of the current run of
                      \* processed frames with hasFace=false (0: no such run)
  cancelled,          \* history: the timers cleared by clearViolationTimeout, recorded
                      \* by the frames of CancelSpec
  frameErrors,        \* history: the instants at which the capture or the detection of
                      \* a frame raised an error
  candidateName,      \* sessionData.candidateName
  sessionId,          \* sessionData.sessionId: n of session_n
  detector,           \* proctoringDetector: isInitialized, useBackupDetection, and
                      \* whether faceDetector and objectDetector hold a model
  tickLog,            \* history: the calls of processVideoFrame that TickSpec makes,
                      \* each with the video element it was handed
  timerLog,           \* history: the timer callbacks that ran in PipelineSpec, each
                      \* with its type, its instant and whether it added an event
  pipeline            \* the frames of OverlapSpec one by one: next, the number of
                      \* frames captured; detecting, the frames whose detection
                      \* runs; awaiting, the frames suspended at the await of
                      \* processDetectionResults, each with its face result;
                      \* applied, the frame setMonitoringStatus was last called for

statusVars == << isRecording, faceDetected, objectsDetected >>
sessionVars == << violations, integrityScore, startTime, endTime, totalDuration >>
timerVars == << violationTimeouts, hostTimers >>
cooldownVars == << objectCooldowns, violationCooldowns >>
samplerVars == << inflight, tickPending >>
historyVars == << emitted, noFaceSince, cancelled, frameErrors >>
identityVars == << candidateName, sessionId >>

vars == << now, isDetectorReady, statusVars, sessionVars, timerVars, cooldownVars,
           samplerVars, historyVars, identityVars, tickLog, timerLog, pipeline, detector >>

----------------------------------------------------------------------------
(* Bounds of the model *)

T0 == 100000           \* Date.now() when the hook is constructed
MaxSteps == 3           \* grid steps watched by Spec
MaxFaceSteps == 4       \* grid steps watched by FaceSpec
MaxObjectSteps == 3     \* grid steps watched by ObjectSpec
MaxPhoneSeconds == 32   \* seconds watched by PhoneSpec
MaxEmitSteps == 2       \* steps of the time grid in EmitSpec
MaxSceneSteps == 2      \* steps of the time grid in SceneSpec
MaxPipelineSteps == 4   \* steps of the time grid in PipelineSpec
MaxOverlapTicks == 3    \* length of OverlapSpec in periods of the sampling interval
MaxBoundarySteps == 8   \* steps of the time grid in BoundarySpec
MaxPipelineEvents == 6  \* length of the timeline in PipelineSpec
MaxDetectorSteps == 2   \* steps of the time grid in DetectorSpec
MaxStartupSteps == 1    \* steps of the time grid in StartupSpec
MaxSessionTicks == 5    \* length of SessionSpec in periods of the sampling interval
MaxTickSteps == 2       \* steps of the time grid in TickSpec
MaxTicks == 3           \* calls of processVideoFrame in TickSpec
MaxErrorSteps == 3      \* steps of the time grid in ErrorSpec
MaxFrameErrors == 2     \* frames that raise an error in ErrorSpec
MaxCancelSteps == 3     \* steps of the time grid in CancelSpec
MaxScoreEvents == 3     \* length of the lists of mixed severities in ScoreSpec
MaxViolations == 2
MaxInFlight == 2

----------------------------------------------------------------------------
(* Types and program constants *)

FACE_NOT_VISIBLE == "face_not_visible"
LOOKING_AWAY == "looking_away"
MULTIPLE_FACES == "multiple_faces"
PHONE_DETECTED == "phone_detected"
BOOK_DETECTED == "book_detected"
DEVICE_DETECTED == "device_detected"
CANDIDATE_ABSENT == "candidate_absent"

ViolationType == { FACE_NOT_VISIBLE, LOOKING_AWAY, MULTIPLE_FACES, PHONE_DETECTED,
                   BOOK_DETECTED, DEVICE_DETECTED, CANDIDATE_ABSENT }

Severity == { "low", "medium", "high", "critical" }

severityRank == [ low |-> 1, medium |-> 2, high |-> 3, critical |-> 4 ]

FaceNotVisibleDelay == 10000
LookingAwayDelay == 5000
ObjectCooldownPeriod == 30000
SampleInterval == 1500

getCooldownPeriod(type) ==
  CASE type = MULTIPLE_FACES -> 15000
    [] type = FACE_NOT_VISIBLE -> 20000
    [] type = LOOKING_AWAY -> 10000
    [] type \in { PHONE_DETECTED, DEVICE_DETECTED, BOOK_DETECTED } -> 30000
    [] OTHER -> 10000

RECURSIVE GCD(_, _)
GCD(a, b) == IF b = 0 THEN a ELSE GCD(b, a % b)

\* The step of the time grid: every delay and cooldown is a multiple of it.
Step == GCD(GCD(FaceNotVisibleDelay, LookingAwayDelay),
            GCD(GCD(getCooldownPeriod(MULTIPLE_FACES), getCooldownPeriod(FACE_NOT_VISIBLE)),
                GCD(getCooldownPeriod(LOOKING_AWAY), ObjectCooldownPeriod)))

Horizon == T0 + MaxSteps * Step

FaceHorizon == T0 + MaxFaceSteps * Step

ObjectHorizon == T0 + MaxObjectSteps * Step

PhoneHorizon == T0 + MaxPhoneSeconds * 1000

Max(a, b) == IF a > b THEN a ELSE b

EmptyMap == [ k \in {} |-> 0 ]

\* Map.get(key) || 0
GetOrZero(m, k) == IF k \in DOMAIN m THEN m[k] ELSE 0

\* Map.set(key, value)
MapSet(m, k, v) == [ x \in DOMAIN m \cup {k} |-> IF x = k THEN v ELSE m[x] ]

\* Map.delete(key)
MapDelete(m, k) == [ x \in DOMAIN m \ {k} |-> m[x] ]

----------------------------------------------------------------------------
(* Scoring *)

RECURSIVE HighestSeverity(_, _)
HighestSeverity(vs, m) ==
  IF vs = << >> THEN m
  ELSE LET v == Head(vs) IN
       HighestSeverity(Tail(vs),
         IF v.type \notin DOMAIN m
           THEN MapSet(m, v.type, v.severity)
           ELSE IF severityRank[v.severity] > severityRank[m[v.type]]
                  THEN MapSet(m, v.type, v.severity)
                  ELSE m)

\* mutant: high costs as much as critical
Deduction_HighAsCritical(severity) ==
  CASE severity = "low" -> 2
    [] severity = "medium" -> 5
    [] severity = "high" -> 20
    [] severity = "critical" -> 20

\* mutant: medium weighs as much as high
Deduction_MediumAsHigh(severity) ==
  CASE severity = "low" -> 2
    [] severity = "medium" -> 10
    [] severity = "high" -> 10
    [] severity = "critical" -> 20

Deduction(severity) ==
  CASE severity = "low" -> 2
    [] severity = "medium" -> 5
    [] severity = "high" -> 10
    [] severity = "critical" -> 20

RECURSIVE SumDeductions(_, _)
SumDeductions(m, keys) ==
  IF keys = {} THEN 0
  ELSE LET k == CHOOSE x \in keys : TRUE IN
       Deduction(m[k]) + SumDeductions(m, keys \ {k})

\* mutant: the severity kept for a type is that of its last event
calculateIntegrityScore_LastWins(vs) ==
  LET types == { vs[i].type : i \in 1 .. Len(vs) }
      last(type) == CHOOSE i \in 1 .. Len(vs) :
                      /\ vs[i].type = type
                      /\ \A j \in 1 .. Len(vs) : vs[j].type = type => j <= i
      m == [ type \in types |-> vs[last(type)].severity ]
  IN Max(0, 100 - SumDeductions(m, DOMAIN m))

\* mutant: every event is deducted, not every type
calculateIntegrityScore_PerEvent(vs) ==
  LET m == [ i \in 1 .. Len(vs) |-> vs[i].severity ]
  IN Max(0, 100 - SumDeductions(m, DOMAIN m))

calculateIntegrityScore(vs) ==
  LET m == HighestSeverity(vs, EmptyMap) IN
  Max(0, 100 - SumDeductions(m, DOMAIN m))

----------------------------------------------------------------------------
(* addViolation.  st is a record holding at least                          *)
(*   v: sessionData.violations, s: sessionData.integrityScore,             *)
(*   c: violationCooldowns.                                                *)

\* mutant: the comparison includes the boundary
InCooldown_Inclusive(c, type, t) == t - GetOrZero(c, type) <= getCooldownPeriod(type)

InCooldown(c, type, t) == t - GetOrZero(c, type) < getCooldownPeriod(type)

NewViolation(type, severity, t) ==
  [ id |-> t, type |-> type, timestamp |-> t, severity |-> severity ]

\* mutant: the emission is not recorded in the cooldown ledger
addViolation_NoLedger(st, type, severity, t) ==
  IF InCooldown(st.c, type, t)
    THEN st
    ELSE LET newViolations == Append(st.v, NewViolation(type, severity, t)) IN
         [ st EXCEPT !.v = newViolations,
                     !.s = calculateIntegrityScore(newViolations) ]

\* mutant: the score is computed from the list before the append
addViolation_StaleScore(st, type, severity, t) ==
  IF InCooldown(st.c, type, t)
    THEN st
    ELSE LET newViolations == Append(st.v, NewViolation(type, severity, t)) IN
         [ st EXCEPT !.v = newViolations,
                     !.s = calculateIntegrityScore(st.v),
                     !.c = MapSet(st.c, type, t) ]

\* mutant: the event is appended to the list of the last render
addViolation_StaleClosure(st, type, severity, t) ==
  IF InCooldown(st.c, type, t)
    THEN st
    ELSE LET newViolations == Append(violations, NewViolation(type, severity, t)) IN
         [ st EXCEPT !.v = newViolations,
                     !.s = calculateIntegrityScore(newViolations),
                     !.c = MapSet(st.c, type, t) ]

\* mutant: a suppressed call restarts the cooldown of its type
addViolation_SlidingCooldown(st, type, severity, t) ==
  IF InCooldown(st.c, type, t)
    THEN [ st EXCEPT !.c = MapSet(st.c, type, t) ]
    ELSE LET newViolations == Append(st.v, NewViolation(type, severity, t)) IN
         [ st EXCEPT !.v = newViolations,
                     !.s = calculateIntegrityScore(newViolations),
                     !.c = MapSet(st.c, type, t) ]

addViolation(st, type, severity, t) ==
  IF InCooldown(st.c, type, t)
    THEN st
    ELSE LET newViolations == Append(st.v, NewViolation(type, severity, t)) IN
         [ st EXCEPT !.v = newViolations,
                     !.s = calculateIntegrityScore(newViolations),
                     !.c = MapSet(st.c, type, t) ]

\* the toasts a call of addViolation shows
addViolationToasts(st, type, severity, t) ==
  IF InCooldown(st.c, type, t)
    THEN << >>
    ELSE << [ title |-> "Violation Detected",
              variant |-> IF severity = "critical" THEN "destructive" ELSE "default" ] >>

----------------------------------------------------------------------------
(* Debounce timers.  st also holds                                         *)
(*   to: violationTimeouts, ht: the host's pending timers.                 *)
(* A timer handle is the pending timer itself: what its callback adds and  *)
(* the instant it is due.                                                  *)

\* mutant: a timer is armed although one is pending for the type
handleViolationTimeout_NoGuard(st, type, severity, delay, t) ==
  LET timeout == [ type |-> type, severity |-> severity, due |-> t + delay ] IN
  [ st EXCEPT !.ht = @ \cup { timeout },
              !.to = MapSet(@, type, timeout) ]

\* mutant: a request while a timer is pending restarts the delay
handleViolationTimeout_Restart(st, type, severity, delay, t) ==
  LET timeout == [ type |-> type, severity |-> severity, due |-> t + delay ] IN
  [ st EXCEPT !.ht = { tm \in @ : tm.type # type } \cup { timeout },
              !.to = MapSet(@, type, timeout) ]

handleViolationTimeout(st, type, severity, delay, t) ==
  IF type \in DOMAIN st.to
    THEN st
    ELSE LET timeout == [ type |-> type, severity |-> severity, due |-> t + delay ] IN
         [ st EXCEPT !.ht = @ \cup { timeout },
                     !.to = MapSet(@, type, timeout) ]

\* clearTimeout(handle)
ClearTimeout(ht, handle) == ht \ { handle }

\* mutant: the map entry is deleted but the host timer is not cleared
clearViolationTimeout_NoClear(st, type) ==
  IF type \in DOMAIN st.to
    THEN [ st EXCEPT !.to = MapDelete(@, type) ]
    ELSE st

\* mutant: clearing a pending timer runs its callback
clearViolationTimeout_Fires(st, type) ==
  IF type \in DOMAIN st.to
    THEN LET fired == addViolation(st, type, st.to[type].severity, st.to[type].due) IN
         [ fired EXCEPT !.ht = ClearTimeout(@, st.to[type]),
                        !.to = MapDelete(@, type) ]
    ELSE st

clearViolationTimeout(st, type) ==
  IF type \in DOMAIN st.to
    THEN [ st EXCEPT !.ht = ClearTimeout(@, st.to[type]),
                     !.to = MapDelete(@, type) ]
    ELSE st

----------------------------------------------------------------------------
(* Object labels are sequences of characters. *)

LowerOf ==
  [ A |-> "a", B |-> "b", C |-> "c", D |-> "d", E |-> "e", F |-> "f", G |-> "g",
    H |-> "h", I |-> "i", J |-> "j", K |-> "k", L |-> "l", M |-> "m", N |-> "n",
    O |-> "o", P |-> "p", Q |-> "q", R |-> "r", S |-> "s", T |-> "t", U |-> "u",
    V |-> "v", W |-> "w", X |-> "x", Y |-> "y", Z |-> "z" ]

RECURSIVE toLowerCase(_)
toLowerCase(str) ==
  IF str = << >> THEN << >>
  ELSE << IF Head(str) \in DOMAIN LowerOf THEN LowerOf[Head(str)] ELSE Head(str) >>
       \o toLowerCase(Tail(str))

includes(str, sub) ==
  \E i \in 0 .. (Len(str) - Len(sub)) : SubSeq(str, i + 1, i + Len(sub)) = sub

StrPhone == << "p", "h", "o", "n", "e" >>
StrBook == << "b", "o", "o", "k" >>
StrLaptop == << "l", "a", "p", "t", "o", "p" >>
StrTablet == << "t", "a", "b", "l", "e", "t" >>

LabelCellPhone == << "c", "e", "l", "l", " " >> \o StrPhone
LabelBook == StrBook
LabelLaptop == StrLaptop
LabelMouse == << "m", "o", "u", "s", "e" >>
LabelPhone == StrPhone
LabelSuspectedDevice ==
  << "s", "u", "s", "p", "e", "c", "t", "e", "d", " ", "d", "e", "v", "i", "c", "e" >>

\* the labels the two object detectors hand to processDetectionResults
DetectorLabels ==
  { LabelCellPhone, LabelBook, LabelLaptop, LabelMouse, LabelPhone, LabelSuspectedDevice }

\* further labels for the classifier: upper case, and two keywords in one label
LabelTablet == << "T", "a", "b", "l", "e", "t" >>
LabelPhoneBook == << "P", "h", "o", "n", "e", " " >> \o StrBook
LabelBookLaptop == StrBook \o << " " >> \o StrLaptop

ClassifierLabels == DetectorLabels \cup { LabelTablet, LabelPhoneBook, LabelBookLaptop }

----------------------------------------------------------------------------
(* processDetectionResults.  st also holds oc: objectCooldowns. *)

\* mutant: the book test comes before the phone test
ProcessObject_BookFirst(st, obj, t) ==
  LET objectKey == toLowerCase(obj)
      lastDetection == GetOrZero(st.oc, objectKey)
  IN IF t - lastDetection > ObjectCooldownPeriod
       THEN IF includes(objectKey, StrBook)
              THEN [ addViolation(st, BOOK_DETECTED, "high", t)
                       EXCEPT !.oc = MapSet(@, objectKey, t) ]
            ELSE IF includes(objectKey, StrPhone)
              THEN [ addViolation(st, PHONE_DETECTED, "critical", t)
                       EXCEPT !.oc = MapSet(@, objectKey, t) ]
            ELSE IF includes(objectKey, StrLaptop) \/ includes(objectKey, StrTablet)
              THEN [ addViolation(st, DEVICE_DETECTED, "high", t)
                       EXCEPT !.oc = MapSet(@, objectKey, t) ]
            ELSE st
       ELSE st

\* mutant: a label is out of cooldown as soon as the period has elapsed
ProcessObject_AtPeriod(st, obj, t) ==
  LET objectKey == toLowerCase(obj)
      lastDetection == GetOrZero(st.oc, objectKey)
  IN IF t - lastDetection >= ObjectCooldownPeriod
       THEN IF includes(objectKey, StrPhone)
              THEN [ addViolation(st, PHONE_DETECTED, "critical", t)
                       EXCEPT !.oc = MapSet(@, objectKey, t) ]
            ELSE IF includes(objectKey, StrBook)
              THEN [ addViolation(st, BOOK_DETECTED, "high", t)
                       EXCEPT !.oc = MapSet(@, objectKey, t) ]
            ELSE IF includes(objectKey, StrLaptop) \/ includes(objectKey, StrTablet)
              THEN [ addViolation(st, DEVICE_DETECTED, "high", t)
                       EXCEPT !.oc = MapSet(@, objectKey, t) ]
            ELSE st
       ELSE st

\* mutant: a label seen inside its cooldown has its timestamp renewed
ProcessObject_RefreshesOnMiss(st, obj, t) ==
  LET objectKey == toLowerCase(obj)
      lastDetection == GetOrZero(st.oc, objectKey)
      emit(type, severity) ==
        [ addViolation(st, type, severity, t) EXCEPT !.oc = MapSet(@, objectKey, t) ]
  IN IF t - lastDetection > ObjectCooldownPeriod
       THEN IF includes(objectKey, StrPhone) THEN emit(PHONE_DETECTED, "critical")
            ELSE IF includes(objectKey, StrBook) THEN emit(BOOK_DETECTED, "high")
            ELSE IF includes(objectKey, StrLaptop) \/ includes(objectKey, StrTablet)
              THEN emit(DEVICE_DETECTED, "high")
            ELSE st
       ELSE [ st EXCEPT !.oc = MapSet(@, objectKey, t) ]

\* mutant: the label cooldown is recorded only when addViolation emitted
ProcessObject_LedgerOnEmit(st, obj, t) ==
  LET objectKey == toLowerCase(obj)
      lastDetection == GetOrZero(st.oc, objectKey)
      emit(type, severity) ==
        LET r == addViolation(st, type, severity, t)
        IN IF r.v # st.v THEN [ r EXCEPT !.oc = MapSet(@, objectKey, t) ] ELSE r
  IN IF t - lastDetection > ObjectCooldownPeriod
       THEN IF includes(objectKey, StrPhone) THEN emit(PHONE_DETECTED, "critical")
            ELSE IF includes(objectKey, StrBook) THEN emit(BOOK_DETECTED, "high")
            ELSE IF includes(objectKey, StrLaptop) \/ includes(objectKey, StrTablet)
              THEN emit(DEVICE_DETECTED, "high")
            ELSE st
       ELSE st

ProcessObject(st, obj, t) ==
  LET objectKey == toLowerCase(obj)
      lastDetection == GetOrZero(st.oc, objectKey)
  IN IF t - lastDetection > ObjectCooldownPeriod
       THEN IF includes(objectKey, StrPhone)
              THEN [ addViolation(st, PHONE_DETECTED, "critical", t)
                       EXCEPT !.oc = MapSet(@, objectKey, t) ]
            ELSE IF includes(objectKey, StrBook)
              THEN [ addViolation(st, BOOK_DETECTED, "high", t)
                       EXCEPT !.oc = MapSet(@, objectKey, t) ]
            ELSE IF includes(objectKey, StrLaptop) \/ includes(objectKey, StrTablet)
              THEN [ addViolation(st, DEVICE_DETECTED, "high", t)
                       EXCEPT !.oc = MapSet(@, objectKey, t) ]
            ELSE st
       ELSE st

RECURSIVE ProcessObjects(_, _, _)
ProcessObjects(st, objs, t) ==
  IF objs = << >> THEN st
  ELSE ProcessObjects(ProcessObject(st, Head(objs), t), Tail(objs), t)

\* mutant: the face-absence timer is armed with the looking-away delay
FaceRule_ShortDelay(st, face, t) ==
  IF ~face.hasFace
    THEN handleViolationTimeout(st, FACE_NOT_VISIBLE, "high", LookingAwayDelay, t)
    ELSE clearViolationTimeout(st, FACE_NOT_VISIBLE)

\* mutant: the face-absence event is armed with severity critical
FaceRule_Critical(st, face, t) ==
  IF ~face.hasFace
    THEN handleViolationTimeout(st, FACE_NOT_VISIBLE, "critical", FaceNotVisibleDelay, t)
    ELSE clearViolationTimeout(st, FACE_NOT_VISIBLE)

FaceRule(st, face, t) ==
  IF ~face.hasFace
    THEN handleViolationTimeout(st, FACE_NOT_VISIBLE, "high", FaceNotVisibleDelay, t)
    ELSE clearViolationTimeout(st, FACE_NOT_VISIBLE)

\* mutant: several faces are debounced like a face looking away
MultipleFacesRule_Debounced(st, face, t) ==
  IF face.hasFace /\ face.count > 1 /\ face.multipleFaces
    THEN handleViolationTimeout(st, MULTIPLE_FACES, "critical", LookingAwayDelay, t)
    ELSE st

MultipleFacesRule(st, face, t) ==
  IF face.hasFace /\ face.count > 1 /\ face.multipleFaces
    THEN addViolation(st, MULTIPLE_FACES, "critical", t)
    ELSE st

\* mutant: a frame without a face leaves the looking-away timer alone
LookingAwayRule_KeepsOnNoFace(st, face, t) ==
  IF face.hasFace /\ face.faces > 0
    THEN IF face.isLookingAway
           THEN handleViolationTimeout(st, LOOKING_AWAY, "medium", LookingAwayDelay, t)
           ELSE clearViolationTimeout(st, LOOKING_AWAY)
    ELSE IF face.hasFace THEN clearViolationTimeout(st, LOOKING_AWAY) ELSE st

LookingAwayRule(st, face, t) ==
  IF face.hasFace /\ face.faces > 0
    THEN IF face.isLookingAway
           THEN handleViolationTimeout(st, LOOKING_AWAY, "medium", LookingAwayDelay, t)
           ELSE clearViolationTimeout(st, LOOKING_AWAY)
    ELSE clearViolationTimeout(st, LOOKING_AWAY)

processDetectionResults(st, face, objs, t) ==
  ProcessObjects(LookingAwayRule(MultipleFacesRule(FaceRule(st, face, t), face, t), face, t),
                 objs, t)

----------------------------------------------------------------------------
(* What the detection adapter can return for a frame *)

FaceResults ==
  { [ hasFace |-> FALSE, count |-> 0, multipleFaces |-> FALSE, faces |-> 0, isLookingAway |-> FALSE ],
    [ hasFace |-> TRUE, count |-> 1, multipleFaces |-> FALSE, faces |-> 1, isLookingAway |-> FALSE ],
    [ hasFace |-> TRUE, count |-> 1, multipleFaces |-> FALSE, faces |-> 1, isLookingAway |-> TRUE ],
    [ hasFace |-> TRUE, count |-> 2, multipleFaces |-> TRUE, faces |-> 2, isLookingAway |-> FALSE ] }

\* every shape of result processDetectionResults provides for: the results
\* above, several faces with the first one looking away, and a face without
\* face data
FaceInputs ==
  FaceResults \cup
  { [ hasFace |-> TRUE, count |-> 2, multipleFaces |-> TRUE, faces |-> 2, isLookingAway |-> TRUE ],
    [ hasFace |-> TRUE, count |-> 1, multipleFaces |-> FALSE, faces |-> 0, isLookingAway |-> FALSE ] }

\* the results for a frame with at most one person in view
SingleFaceResults == { face \in FaceResults : ~face.multipleFaces }

ObjectResults == { << >>, << LabelCellPhone >> }

----------------------------------------------------------------------------
(* The video element handed to processVideoFrame. *)

\* the frames of a hook that has captured none
NoFrames == [ next |-> 0, detecting |-> {}, awaiting |-> {}, applied |-> 0 ]

NoVideo == [ readyState |-> 0, videoWidth |-> 0, videoHeight |-> 0, mounted |-> FALSE ]

VideoElements ==
  { NoVideo,
    [ readyState |-> 0, videoWidth |-> 0, videoHeight |-> 0, mounted |-> TRUE ],
    [ readyState |-> 4, videoWidth |-> 0, videoHeight |-> 0, mounted |-> TRUE ],
    [ readyState |-> 4, videoWidth |-> 640, videoHeight |-> 0, mounted |-> TRUE ],
    [ readyState |-> 4, videoWidth |-> 640, videoHeight |-> 480, mounted |-> TRUE ] }

\* the callback throttledProcessFrame wraps: whether it calls processVideoFrame
throttledProcessFrame(video) == video.mounted /\ video.readyState = 4

\* mutant: a frame is captured whatever the dimensions of the video
processVideoFrame_IgnoresDimensions(ready, recording, video) == ready /\ recording

\* mutant: a frame is captured whether the detector is ready or not
processVideoFrame_IgnoresReady(ready, recording, video) ==
  recording /\ video.videoWidth # 0 /\ video.videoHeight # 0

\* whether processVideoFrame gets as far as img.src, which starts detection
\* (canvas.getContext('2d') is taken to return a context)
processVideoFrame(ready, recording, video) ==
  IF ~ready \/ ~recording
    THEN FALSE
    ELSE IF video.videoWidth = 0 \/ video.videoHeight = 0
      THEN FALSE
      ELSE TRUE

NoTick == [ n |-> 0, video |-> NoVideo, at |-> 0 ]

----------------------------------------------------------------------------
(* ProctoringDetector *)

NewDetector ==
  [ isInitialized |-> FALSE, useBackupDetection |-> FALSE,
    faceDetector |-> FALSE, objectDetector |-> FALSE ]

\* mutant: one model that fails to load puts both capabilities on the backup routines
initialize_AllOrNothing(d, tfReady, faceLoads, objectLoads) ==
  IF ~tfReady
    THEN [ threw |-> TRUE,
           detector |-> [ d EXCEPT !.useBackupDetection = TRUE, !.isInitialized = TRUE ] ]
    ELSE [ threw |-> FALSE,
           detector |-> [ d EXCEPT !.faceDetector = faceLoads /\ objectLoads,
                                   !.objectDetector = faceLoads /\ objectLoads,
                                   !.useBackupDetection = ~(faceLoads /\ objectLoads),
                                   !.isInitialized = TRUE ] ]

\* initialize(): tfReady: tf.ready() resolves within 30 s; faceLoads and
\* objectLoads: blazeface.load() and cocoSsd.load() resolve within 15 s
initialize(d, tfReady, faceLoads, objectLoads) ==
  IF ~tfReady
    THEN [ threw |-> TRUE,
           detector |-> [ d EXCEPT !.useBackupDetection = TRUE, !.isInitialized = TRUE ] ]
    ELSE LET loaded == [ d EXCEPT !.faceDetector = IF faceLoads THEN TRUE ELSE @,
                                  !.objectDetector = IF objectLoads THEN TRUE ELSE @ ]
             modelLoadCount == (IF faceLoads THEN 1 ELSE 0) + (IF objectLoads THEN 1 ELSE 0)
         IN
         [ threw |-> FALSE,
           detector |-> [ loaded EXCEPT !.useBackupDetection =
                                          IF modelLoadCount = 0 THEN TRUE ELSE @,
                                        !.isInitialized = TRUE ] ]

\* detectFaces and detectObjects: whether the call goes to the backup routine
detectFacesUsesBackup(d) == d.useBackupDetection \/ ~d.faceDetector

detectObjectsUsesBackup(d) == d.useBackupDetection \/ ~d.objectDetector

----------------------------------------------------------------------------
(* AlertsPanel: violations.sort((a, b) => b.timestamp - a.timestamp), a    *)
(* stable sort in place of the array it is handed.                         *)

RECURSIVE InsertByTimestampDesc(_, _)
InsertByTimestampDesc(sorted, x) ==
  IF sorted = << >> THEN << x >>
  ELSE IF Head(sorted).timestamp >= x.timestamp
         THEN << Head(sorted) >> \o InsertByTimestampDesc(Tail(sorted), x)
         ELSE << x >> \o sorted

RECURSIVE SortByTimestampDesc(_, _)
SortByTimestampDesc(sorted, rest) ==
  IF rest = << >> THEN sorted
  ELSE SortByTimestampDesc(InsertByTimestampDesc(sorted, Head(rest)), Tail(rest))

----------------------------------------------------------------------------
(* The state and its operations *)

Engine ==
  [ v |-> violations, s |-> integrityScore, c |-> violationCooldowns,
    to |-> violationTimeouts, ht |-> hostTimers, oc |-> objectCooldowns ]

\* history: the events st appends to the current list
Emissions(st) ==
  { [ type |-> st.v[i].type, timestamp |-> st.v[i].timestamp, live |-> TRUE ] :
      i \in (Len(violations) + 1) .. Len(st.v) }

Init ==
  /\ now = T0
  /\ isDetectorReady = FALSE
  /\ isRecording = FALSE
  /\ faceDetected = FALSE
  /\ objectsDetected = << >>
  /\ violations = << >>
  /\ integrityScore = 100
  /\ startTime = T0
  /\ endTime = 0
  /\ totalDuration = 0
  /\ violationTimeouts = EmptyMap
  /\ hostTimers = {}
  /\ objectCooldowns = EmptyMap
  /\ violationCooldowns = EmptyMap
  /\ inflight = 0
  /\ tickPending = FALSE
  /\ emitted = {}
  /\ noFaceSince = 0
  /\ cancelled = {}
  /\ frameErrors = << >>
  /\ candidateName = "John Doe"
  /\ sessionId = T0
  /\ tickLog = NoTick
  /\ timerLog = {}
  /\ pipeline = NoFrames
  /\ detector = NewDetector

\* useEffect: proctoringDetector.initialize() resolves
InitializeDetector ==
  /\ ~isDetectorReady
  /\ isDetectorReady' = TRUE
  /\ detector' = initialize(detector, TRUE, TRUE, TRUE).detector
  /\ UNCHANGED << now, identityVars, tickLog, timerLog, pipeline, statusVars, sessionVars, timerVars,
                  cooldownVars, samplerVars, historyVars >>

\* the Start Monitoring button: handleStartMonitoring -> startMonitoring;
\* the effect on monitoringStatus.isRecording installs the sampling interval
\* mutant: starting begins a new session
StartMonitoring_NewSession ==
  /\ isDetectorReady
  /\ ~isRecording
  /\ isRecording' = TRUE
  /\ startTime' = now
  /\ violations' = << >>
  /\ integrityScore' = 100
  /\ tickPending' = FALSE
  /\ UNCHANGED << now, isDetectorReady, identityVars, tickLog, timerLog, pipeline, detector,
                  faceDetected, objectsDetected,
                  endTime, totalDuration, timerVars, cooldownVars,
                  inflight, historyVars >>

\* mutant: starting gives the score back
StartMonitoring_ResetsScore ==
  /\ isDetectorReady
  /\ ~isRecording
  /\ isRecording' = TRUE
  /\ startTime' = now
  /\ integrityScore' = 100
  /\ tickPending' = FALSE
  /\ UNCHANGED << now, isDetectorReady, identityVars, tickLog, timerLog, pipeline, detector,
                  faceDetected, objectsDetected, violations,
                  endTime, totalDuration, timerVars, cooldownVars,
                  inflight, historyVars >>

StartMonitoring ==
  /\ isDetectorReady
  /\ ~isRecording
  /\ isRecording' = TRUE
  /\ startTime' = now
  /\ tickPending' = FALSE
  /\ UNCHANGED << now, isDetectorReady, identityVars, tickLog, timerLog, pipeline, detector,
                  faceDetected, objectsDetected, violations,
                  integrityScore, endTime, totalDuration, timerVars, cooldownVars,
                  inflight, historyVars >>

\* mutant: the map of timers is cleared but the timers themselves are left armed
StopMonitoring_KeepsTimers ==
  /\ isRecording
  /\ isRecording' = FALSE
  /\ endTime' = now
  /\ totalDuration' = (now - startTime) \div 1000
  /\ violationTimeouts' = EmptyMap
  /\ violationCooldowns' = EmptyMap
  /\ tickPending' = FALSE
  /\ emitted' = { [ e EXCEPT !.live = FALSE ] : e \in emitted }
  /\ UNCHANGED << now, isDetectorReady, identityVars, tickLog, timerLog, pipeline, detector,
                  faceDetected, objectsDetected, violations,
                  integrityScore, startTime, objectCooldowns, inflight,
                  noFaceSince, cancelled, frameErrors, hostTimers >>

\* mutant: the duration is rounded to the nearest second
StopMonitoring_RoundsDuration ==
  /\ isRecording
  /\ isRecording' = FALSE
  /\ endTime' = now
  /\ totalDuration' = (now - startTime + 500) \div 1000
  /\ hostTimers' = hostTimers \ { violationTimeouts[ty] : ty \in DOMAIN violationTimeouts }
  /\ violationTimeouts' = EmptyMap
  /\ violationCooldowns' = EmptyMap
  /\ tickPending' = FALSE
  /\ emitted' = { [ e EXCEPT !.live = FALSE ] : e \in emitted }
  /\ UNCHANGED << now, isDetectorReady, identityVars, tickLog, timerLog, pipeline, detector,
                  faceDetected, objectsDetected, violations,
                  integrityScore, startTime, objectCooldowns, inflight, noFaceSince,
                  cancelled, frameErrors >>

\* the Stop Monitoring button: stopMonitoring;
\* the effect on monitoringStatus.isRecording clears the sampling interval
StopMonitoring ==
  /\ isRecording
  /\ isRecording' = FALSE
  /\ endTime' = now
  /\ totalDuration' = (now - startTime) \div 1000
  /\ hostTimers' = hostTimers \ { violationTimeouts[ty] : ty \in DOMAIN violationTimeouts }
  /\ violationTimeouts' = EmptyMap
  /\ violationCooldowns' = EmptyMap
  /\ tickPending' = FALSE
  /\ emitted' = { [ e EXCEPT !.live = FALSE ] : e \in emitted }
  /\ UNCHANGED << now, isDetectorReady, identityVars, tickLog, timerLog, pipeline, detector,
                  faceDetected, objectsDetected, violations,
                  integrityScore, startTime, objectCooldowns, inflight, noFaceSince,
                  cancelled, frameErrors >>

\* setInterval tick -> throttledProcessFrame -> processVideoFrame up to img.src
CaptureFrame ==
  /\ tickPending
  /\ isDetectorReady
  /\ isRecording
  /\ inflight < MaxInFlight
  /\ inflight' = inflight + 1
  /\ tickPending' = FALSE
  /\ UNCHANGED << now, isDetectorReady, identityVars, tickLog, timerLog, pipeline, detector,
                  statusVars, sessionVars, timerVars,
                  cooldownVars, historyVars >>

\* img.onload from setMonitoringStatus on: the results of a frame are
\* processed; the timeline is watched up to max events
ProcessResultsUpTo(face, objs, max) ==
  LET st == processDetectionResults(Engine, face, objs, now) IN
  /\ inflight > 0
  /\ Len(st.v) <= max
  /\ inflight' = inflight - 1
  /\ faceDetected' = face.hasFace
  /\ objectsDetected' = objs
  /\ violations' = st.v
  /\ integrityScore' = st.s
  /\ violationCooldowns' = st.c
  /\ violationTimeouts' = st.to
  /\ hostTimers' = st.ht
  /\ objectCooldowns' = st.oc
  /\ emitted' = emitted \cup Emissions(st)
  /\ noFaceSince' = IF face.hasFace THEN 0
                    ELSE IF noFaceSince # 0 THEN noFaceSince ELSE now
  /\ UNCHANGED << now, isDetectorReady, identityVars, tickLog, timerLog, pipeline, detector,
                  isRecording, startTime, endTime,
                  totalDuration, tickPending >>

ProcessResults(face, objs) == ProcessResultsUpTo(face, objs, MaxViolations)

\* img.onload: detection of a captured frame completes and its results are processed
ProcessFrame(face, objs) ==
  /\ ProcessResults(face, objs)
  /\ UNCHANGED << cancelled, frameErrors >>

\* mutant: a callback that finds its type in cooldown puts the timer off to
\* the end of the cooldown
TimerCallback_Reschedules(tm, max) ==
  LET st == addViolation(Engine, tm.type, tm.severity, now)
      suppressed == InCooldown(violationCooldowns, tm.type, now)
      again == [ tm EXCEPT !.due = violationCooldowns[tm.type] + getCooldownPeriod(tm.type) ]
  IN
  /\ tm \in hostTimers
  /\ tm.due <= now
  /\ Len(st.v) <= max
  /\ hostTimers' = IF suppressed THEN (hostTimers \ {tm}) \cup { again }
                   ELSE hostTimers \ {tm}
  /\ violations' = st.v
  /\ integrityScore' = st.s
  /\ violationCooldowns' = st.c
  /\ violationTimeouts' = IF suppressed THEN MapSet(violationTimeouts, tm.type, again)
                          ELSE MapDelete(violationTimeouts, tm.type)
  /\ emitted' = emitted \cup Emissions(st)
  /\ UNCHANGED << now, isDetectorReady, identityVars, tickLog, pipeline, detector,
                  statusVars, startTime, endTime, totalDuration,
                  objectCooldowns, samplerVars, noFaceSince, cancelled, frameErrors >>

\* the setTimeout callback of handleViolationTimeout; the timeline is watched
\* up to max events
TimerCallback(tm, max) ==
  LET st == addViolation(Engine, tm.type, tm.severity, now) IN
  /\ tm \in hostTimers
  /\ tm.due <= now
  /\ Len(st.v) <= max
  /\ hostTimers' = hostTimers \ {tm}
  /\ violations' = st.v
  /\ integrityScore' = st.s
  /\ violationCooldowns' = st.c
  /\ violationTimeouts' = MapDelete(violationTimeouts, tm.type)
  /\ emitted' = emitted \cup Emissions(st)
  /\ UNCHANGED << now, isDetectorReady, identityVars, tickLog, pipeline, detector,
                  statusVars, startTime, endTime, totalDuration,
                  objectCooldowns, samplerVars, noFaceSince, cancelled, frameErrors >>

FireTimerUpTo(tm, max) == TimerCallback(tm, max) /\ UNCHANGED timerLog

FireTimer(tm) == FireTimerUpTo(tm, MaxViolations)

\* VideoMonitor's effect hands sessionData to Index (handleSessionUpdate), which
\* renders AlertsPanel with sessionData.violations
RenderAlertsPanel ==
  /\ violations' = SortByTimestampDesc(<< >>, violations)
  /\ violations' # violations
  /\ UNCHANGED << now, isDetectorReady, identityVars, tickLog, timerLog, pipeline, detector,
                  statusVars, integrityScore, startTime, endTime,
                  totalDuration, timerVars, cooldownVars, samplerVars, historyVars >>

\* d ms pass: a due timer fires before the clock moves past it, and the
\* sampling interval fires again (it may or may not when d is shorter than
\* its period)
Elapse(d, horizon) ==
  /\ isDetectorReady
  /\ now + d <= horizon
  /\ \A tm \in hostTimers : tm.due >= now + d
  /\ now' = now + d
  /\ tickPending' \in (IF ~isRecording THEN { FALSE }
                       ELSE IF d >= SampleInterval THEN { TRUE } ELSE BOOLEAN)
  /\ UNCHANGED << isDetectorReady, identityVars, tickLog, timerLog, pipeline, detector, statusVars, sessionVars,
                  timerVars, cooldownVars, inflight, historyVars >>

\* time passes by one step of the grid
AdvanceTo(horizon) == Elapse(Step, horizon)

Advance == AdvanceTo(Horizon)

\* one candidate at most in front of the camera, with or without a phone
DetectionCompletes ==
  \E face \in SingleFaceResults, objs \in ObjectResults : ProcessFrame(face, objs)

TimerFires == \E tm \in hostTimers : FireTimer(tm)

Next ==
  \/ InitializeDetector
  \/ StartMonitoring
  \/ StopMonitoring
  \/ CaptureFrame
  \/ DetectionCompletes
  \/ TimerFires
  \/ RenderAlertsPanel
  \/ Advance

Spec == Init /\ [][Next]_vars

\* The same program watched over a longer time with any number of faces and
\* nothing else in front of the camera: detectObjects returns no prediction
\* and the alerts panel is not mounted.
FaceDetectionCompletes == \E face \in FaceResults : ProcessFrame(face, << >>)

FaceAdvance == AdvanceTo(FaceHorizon)

FaceNext ==
  \/ InitializeDetector
  \/ StartMonitoring
  \/ StopMonitoring
  \/ CaptureFrame
  \/ FaceDetectionCompletes
  \/ TimerFires
  \/ FaceAdvance

FaceSpec == Init /\ [][FaceNext]_vars

\* The same program with the candidate facing the screen and one object at
\* most in each frame, of any label the object detectors produce; monitoring
\* is started and left on.
FacingResult == CHOOSE face \in FaceResults : face.hasFace /\ ~face.multipleFaces /\ ~face.isLookingAway

ObjectDetectionCompletes ==
  \E objs \in { << >> } \cup { << label >> : label \in DetectorLabels } :
    ProcessFrame(FacingResult, objs)

ObjectAdvance == AdvanceTo(ObjectHorizon)

ObjectNext ==
  \/ InitializeDetector
  \/ StartMonitoring
  \/ CaptureFrame
  \/ ObjectDetectionCompletes
  \/ ObjectAdvance

ObjectSpec == Init /\ [][ObjectNext]_vars

\* The same program watched for half a minute with the candidate facing the
\* screen and a cell phone in view or not; frames are processed one second or
\* ten seconds apart.
PhoneDelays == { 1000, 10000 }

PhoneDetectionCompletes ==
  \E objs \in { << >>, << LabelCellPhone >> } : ProcessFrame(FacingResult, objs)

PhoneElapse == \E d \in PhoneDelays : Elapse(d, PhoneHorizon)

PhoneNext ==
  \/ InitializeDetector
  \/ StartMonitoring
  \/ CaptureFrame
  \/ PhoneDetectionCompletes
  \/ PhoneElapse

PhoneSpec == Init /\ [][PhoneNext]_vars

\* The scoring seen through the hook's exported addViolation: a consumer has
\* recorded events of any severity, the session has been stopped (which
\* clears the cooldowns and keeps the list) and the consumer records more.
ScoreTypes == { FACE_NOT_VISIBLE, LOOKING_AWAY, PHONE_DETECTED }

ScoreEvents == { NewViolation(type, severity, T0) : type \in ScoreTypes, severity \in Severity }

\* one critical event of each type, enough of them to exhaust the score
AllCritical ==
  << NewViolation(FACE_NOT_VISIBLE, "critical", T0), NewViolation(LOOKING_AWAY, "critical", T0),
     NewViolation(MULTIPLE_FACES, "critical", T0), NewViolation(PHONE_DETECTED, "critical", T0),
     NewViolation(BOOK_DETECTED, "critical", T0), NewViolation(DEVICE_DETECTED, "critical", T0),
     NewViolation(CANDIDATE_ABSENT, "critical", T0) >>

ScoreLists ==
  UNION { [ 1 .. n -> ScoreEvents ] : n \in 0 .. MaxScoreEvents }
    \cup { SubSeq(AllCritical, 1, n) : n \in 1 .. Len(AllCritical) }

ScoreInit ==
  /\ now = T0
  /\ isDetectorReady = FALSE
  /\ isRecording = FALSE
  /\ faceDetected = FALSE
  /\ objectsDetected = << >>
  /\ violations \in ScoreLists
  /\ integrityScore = calculateIntegrityScore(violations)
  /\ startTime = T0
  /\ endTime = T0
  /\ totalDuration = 0
  /\ violationTimeouts = EmptyMap
  /\ hostTimers = {}
  /\ objectCooldowns = EmptyMap
  /\ violationCooldowns = EmptyMap
  /\ inflight = 0
  /\ tickPending = FALSE
  /\ emitted = { [ type |-> violations[i].type, timestamp |-> violations[i].timestamp,
                   live |-> FALSE ] : i \in 1 .. Len(violations) }
  /\ noFaceSince = 0
  /\ cancelled = {}
  /\ frameErrors = << >>
  /\ candidateName = "John Doe"
  /\ sessionId = T0
  /\ tickLog = NoTick
  /\ timerLog = {}
  /\ pipeline = NoFrames
  /\ detector = NewDetector

\* a consumer of the hook calls the addViolation it returns
ApiAddViolation ==
  \E type \in ScoreTypes, severity \in Severity :
    LET st == addViolation(Engine, type, severity, now) IN
    /\ Len(violations) < MaxScoreEvents
    /\ violations' = st.v
    /\ integrityScore' = st.s
    /\ violationCooldowns' = st.c
    /\ emitted' = emitted \cup Emissions(st)
    /\ UNCHANGED << now, isDetectorReady, identityVars, tickLog, timerLog, pipeline, detector,
                    statusVars, startTime, endTime, totalDuration,
                    timerVars, objectCooldowns, samplerVars, noFaceSince, cancelled,
                    frameErrors >>

ScoreNext == ApiAddViolation

ScoreSpec == ScoreInit /\ [][ScoreNext]_vars

\* The program of Spec with the alerts panel not mounted and every timer a
\* frame clears with clearViolationTimeout recorded in cancelled.
CancelHorizon == T0 + MaxCancelSteps * Step

CancelDetectionCompletes ==
  \E face \in SingleFaceResults, objs \in ObjectResults :
    /\ ProcessResults(face, objs)
    /\ cancelled' = cancelled \cup (hostTimers \ hostTimers')
    /\ UNCHANGED frameErrors

CancelAdvance == AdvanceTo(CancelHorizon)

CancelNext ==
  \/ InitializeDetector
  \/ StartMonitoring
  \/ StopMonitoring
  \/ CaptureFrame
  \/ CancelDetectionCompletes
  \/ TimerFires
  \/ CancelAdvance

CancelSpec == Init /\ [][CancelNext]_vars

\* The program of Spec with the alerts panel not mounted and frames whose
\* capture or detection raises an error. detectFaces and detectObjects catch
\* an error of their model and return the result of their backup routine;
\* they throw when the backup routine does.
ErrorHorizon == T0 + MaxErrorSteps * Step

\* processVideoFrame's outer catch: drawImage or toDataURL throws
CaptureFails ==
  /\ tickPending
  /\ isDetectorReady
  /\ isRecording
  /\ Len(frameErrors) < MaxFrameErrors
  /\ tickPending' = FALSE
  /\ frameErrors' = Append(frameErrors, now)
  /\ UNCHANGED << now, isDetectorReady, identityVars, tickLog, timerLog, pipeline, detector,
                  statusVars, sessionVars, timerVars,
                  cooldownVars, inflight, emitted, noFaceSince, cancelled >>

\* mutant: a frame whose detection throws is processed as a frame with no detection
DetectionThrows_MarksNoFace ==
  /\ inflight > 0
  /\ Len(frameErrors) < MaxFrameErrors
  /\ inflight' = inflight - 1
  /\ faceDetected' = FALSE
  /\ objectsDetected' = << >>
  /\ frameErrors' = Append(frameErrors, now)
  /\ UNCHANGED << now, isDetectorReady, identityVars, tickLog, timerLog, pipeline, detector,
                  isRecording, sessionVars, timerVars,
                  cooldownVars, tickPending, emitted, noFaceSince, cancelled >>

\* img.onload's catch: detectFaces or detectObjects throws
DetectionThrows ==
  /\ inflight > 0
  /\ Len(frameErrors) < MaxFrameErrors
  /\ inflight' = inflight - 1
  /\ frameErrors' = Append(frameErrors, now)
  /\ UNCHANGED << now, isDetectorReady, identityVars, tickLog, timerLog, pipeline, detector,
                  statusVars, sessionVars, timerVars,
                  cooldownVars, tickPending, emitted, noFaceSince, cancelled >>

\* the model of detectFaces or detectObjects raises an error, which the
\* detector catches: the results of the backup routines are processed
BackupFaceResults == { face \in FaceResults : face.count <= 1 /\ ~face.isLookingAway }

DetectionFallsBack ==
  \E face \in BackupFaceResults, objs \in { << >>, << LabelPhone >> } : ProcessFrame(face, objs)

ErrorDetectionCompletes == \E face \in SingleFaceResults : ProcessFrame(face, << >>)

ErrorAdvance == AdvanceTo(ErrorHorizon)

ErrorNext ==
  \/ InitializeDetector
  \/ StartMonitoring
  \/ StopMonitoring
  \/ CaptureFrame
  \/ CaptureFails
  \/ ErrorDetectionCompletes
  \/ DetectionFallsBack
  \/ DetectionThrows
  \/ TimerFires
  \/ ErrorAdvance

ErrorSpec == Init /\ [][ErrorNext]_vars

\* The program of Spec with the alerts panel not mounted and the sampling
\* tick made at any time, as by any consumer of the processVideoFrame the
\* hook returns, with any video element.
TickHorizon == T0 + MaxTickSteps * Step

TickWith(videos) ==
  \E video \in videos :
    LET captures == /\ throttledProcessFrame(video)
                    /\ processVideoFrame(isDetectorReady, isRecording, video)
    IN
    /\ tickLog.n < MaxTicks
    /\ inflight < MaxInFlight
    /\ inflight' = IF captures THEN inflight + 1 ELSE inflight
    /\ tickPending' = FALSE
    /\ tickLog' = [ n |-> tickLog.n + 1, video |-> video, at |-> now ]
    /\ UNCHANGED << now, isDetectorReady, identityVars, timerLog, pipeline, detector, statusVars, sessionVars,
                    timerVars, cooldownVars, historyVars >>

Tick == TickWith(VideoElements)

TickDetectionCompletes == \E face \in SingleFaceResults : ProcessFrame(face, << >>)

TickAdvance == AdvanceTo(TickHorizon)

TickNext ==
  \/ InitializeDetector
  \/ StartMonitoring
  \/ StopMonitoring
  \/ Tick
  \/ TickDetectionCompletes
  \/ TimerFires
  \/ TickAdvance

TickSpec == Init /\ [][TickNext]_vars

\* The program of Spec with the alerts panel not mounted and the buttons
\* pressed between the steps of the time grid too: time passes by one period
\* of the sampling interval or by one step of the grid.
SessionHorizon == T0 + MaxSessionTicks * SampleInterval

SessionElapse == Elapse(SampleInterval, SessionHorizon) \/ Elapse(Step, SessionHorizon)

SessionNext ==
  \/ InitializeDetector
  \/ StartMonitoring
  \/ StopMonitoring
  \/ CaptureFrame
  \/ DetectionCompletes
  \/ TimerFires
  \/ SessionElapse

SessionSpec == Init /\ [][SessionNext]_vars

\* The program of Spec with the alerts panel not mounted and initialize()
\* run with any outcome of tf.ready() and of the two model loads; each
\* detection is served by the model or by the backup routine as detectFaces
\* and detectObjects choose.
DetectorHorizon == T0 + MaxDetectorSteps * Step

\* useEffect: proctoringDetector.initialize() settles; setIsDetectorReady(true)
\* unless it threw
InitializeWith ==
  \E tfReady \in BOOLEAN, faceLoads \in BOOLEAN, objectLoads \in BOOLEAN :
    LET r == initialize(detector, tfReady, faceLoads, objectLoads) IN
    /\ ~detector.isInitialized
    /\ ~isDetectorReady
    /\ detector' = r.detector
    /\ isDetectorReady' = ~r.threw
    /\ UNCHANGED << now, identityVars, tickLog, timerLog, pipeline, statusVars, sessionVars, timerVars,
                    cooldownVars, samplerVars, historyVars >>

DetectorDetectionCompletes ==
  \E face \in (IF detectFacesUsesBackup(detector) THEN BackupFaceResults
                ELSE SingleFaceResults),
     objs \in (IF detectObjectsUsesBackup(detector) THEN { << >>, << LabelPhone >> }
               ELSE ObjectResults) :
    ProcessFrame(face, objs)

DetectorAdvance == AdvanceTo(DetectorHorizon)

DetectorNext ==
  \/ InitializeWith
  \/ StartMonitoring
  \/ StopMonitoring
  \/ CaptureFrame
  \/ DetectorDetectionCompletes
  \/ TimerFires
  \/ DetectorAdvance

DetectorSpec == Init /\ [][DetectorNext]_vars

\* The program of DetectorSpec with a consumer of the hook that calls the
\* startMonitoring and the processVideoFrame it returns at any time, whatever
\* isDetectorReady, with a video element that has data and dimensions; time
\* passes whether initialization succeeded or not.
StartupHorizon == T0 + MaxStartupSteps * Step

\* the video elements ready to be captured
ReadyVideos ==
  { video \in VideoElements :
      video.mounted /\ video.readyState = 4 /\ video.videoWidth # 0 /\ video.videoHeight # 0 }

\* the hook's startMonitoring, called without VideoMonitor's test of
\* isDetectorReady
HookStartMonitoring ==
  /\ ~isRecording
  /\ isRecording' = TRUE
  /\ startTime' = now
  /\ tickPending' = FALSE
  /\ UNCHANGED << now, isDetectorReady, identityVars, tickLog, timerLog, pipeline, detector,
                  faceDetected, objectsDetected, violations,
                  integrityScore, endTime, totalDuration, timerVars, cooldownVars,
                  inflight, historyVars >>

StartupTick == TickWith(ReadyVideos)

\* time passes while the detector is not ready
StartupWaits ==
  /\ ~isDetectorReady
  /\ now + Step <= StartupHorizon
  /\ now' = now + Step
  /\ tickPending' = FALSE
  /\ UNCHANGED << isDetectorReady, identityVars, tickLog, timerLog, pipeline, detector,
                  statusVars, sessionVars, timerVars, cooldownVars, inflight, historyVars >>

StartupAdvance == AdvanceTo(StartupHorizon)

StartupNext ==
  \/ InitializeWith
  \/ HookStartMonitoring
  \/ StopMonitoring
  \/ StartupTick
  \/ DetectorDetectionCompletes
  \/ TimerFires
  \/ StartupWaits
  \/ StartupAdvance

StartupSpec == Init /\ [][StartupNext]_vars

\* The program of Spec with one face and no object in front of the camera,
\* the alerts panel not mounted, and a consumer of the hook that calls the
\* addViolation it returns at any time.
EmitHorizon == T0 + MaxEmitSteps * Step

\* the types the consumer emits: no rule of processDetectionResults emits them
\* for the frames of EmitSpec
DirectTypes == { DEVICE_DETECTED, CANDIDATE_ABSENT }

DirectAddViolation ==
  \E type \in DirectTypes :
    LET st == addViolation(Engine, type, "medium", now) IN
    /\ isDetectorReady
    /\ Len(st.v) <= MaxViolations
    /\ violations' = st.v
    /\ integrityScore' = st.s
    /\ violationCooldowns' = st.c
    /\ emitted' = emitted \cup Emissions(st)
    /\ st.v # violations
    /\ UNCHANGED << now, isDetectorReady, identityVars, tickLog, timerLog, pipeline, detector,
                    statusVars, startTime, endTime, totalDuration, timerVars,
                    objectCooldowns, samplerVars, noFaceSince, cancelled, frameErrors >>

EmitDetectionCompletes ==
  \E face \in { f \in FaceResults : f.hasFace /\ ~f.multipleFaces } : ProcessFrame(face, << >>)

EmitAdvance == AdvanceTo(EmitHorizon)

EmitNext ==
  \/ InitializeDetector
  \/ StartMonitoring
  \/ StopMonitoring
  \/ CaptureFrame
  \/ EmitDetectionCompletes
  \/ TimerFires
  \/ DirectAddViolation
  \/ EmitAdvance

EmitSpec == Init /\ [][EmitNext]_vars

\* The program of Spec with any number of faces in front of the camera and up
\* to two objects in view; monitoring is started and left on and the alerts
\* panel is not mounted.
SceneHorizon == T0 + MaxSceneSteps * Step

SceneObjects == { << >>, << LabelCellPhone >>, << LabelCellPhone, LabelBook >> }

SceneDetectionCompletes ==
  \E face \in FaceResults, objs \in SceneObjects : ProcessFrame(face, objs)

SceneAdvance == AdvanceTo(SceneHorizon)

SceneNext ==
  \/ InitializeDetector
  \/ StartMonitoring
  \/ CaptureFrame
  \/ SceneDetectionCompletes
  \/ TimerFires
  \/ SceneAdvance

SceneSpec == Init /\ [][SceneNext]_vars

\* The program of Spec with any number of faces in front of the camera and
\* either nothing or a cell phone, a book and a laptop in view; monitoring is
\* started and left on, the alerts panel is not mounted, and the timeline is
\* watched until it holds one event of every type the rules emit.
PipelineHorizon == T0 + MaxPipelineSteps * Step

PipelineObjects == { << >>, << LabelCellPhone, LabelBook, LabelLaptop >> }

PipelineDetectionCompletes ==
  \E face \in FaceResults, objs \in PipelineObjects :
    /\ ProcessResultsUpTo(face, objs, MaxPipelineEvents)
    /\ UNCHANGED << cancelled, frameErrors >>

PipelineTimerFires ==
  \E tm \in hostTimers :
    /\ TimerCallback(tm, MaxPipelineEvents)
    /\ timerLog' = timerLog \cup
         { [ type |-> tm.type, at |-> now,
             added |-> ~InCooldown(violationCooldowns, tm.type, now) ] }

PipelineAdvance == AdvanceTo(PipelineHorizon)

PipelineNext ==
  \/ InitializeDetector
  \/ StartMonitoring
  \/ CaptureFrame
  \/ PipelineDetectionCompletes
  \/ PipelineTimerFires
  \/ PipelineAdvance

PipelineSpec == Init /\ [][PipelineNext]_vars

\* The first seconds of monitoring, shorter than the shortest timer delay,
\* with the frames in flight told apart and processDetectionResults taken in
\* its two parts: up to its await of analyzeLookingDirection, and from there
\* on.  A detection takes any time.  A suspended frame resumes before the
\* clock moves, before a tick and before a call of the hook's functions; the
\* continuation of another frame whose detection has completed may run first.
OverlapHorizon == T0 + MaxOverlapTicks * SampleInterval

\* setInterval tick -> throttledProcessFrame -> processVideoFrame up to img.src
OverlapCapture ==
  /\ tickPending
  /\ isDetectorReady
  /\ isRecording
  /\ inflight < MaxInFlight
  /\ inflight' = inflight + 1
  /\ tickPending' = FALSE
  /\ pipeline' = [ pipeline EXCEPT !.next = @ + 1,
                                   !.detecting = @ \cup { pipeline.next + 1 } ]
  /\ UNCHANGED << now, isDetectorReady, identityVars, tickLog, timerLog, detector,
                  statusVars, sessionVars, timerVars, cooldownVars, historyVars >>

\* img.onload of frame k: detection completes, setMonitoringStatus is called
\* and processDetectionResults runs up to its await, or to its end for a
\* result that takes it past the await
OverlapDetectionCompletes ==
  \E k \in pipeline.detecting, face \in FaceResults :
    LET suspends == face.hasFace /\ face.faces > 0
        upToAwait == MultipleFacesRule(FaceRule(Engine, face, now), face, now)
        st == IF suspends THEN upToAwait
              ELSE ProcessObjects(LookingAwayRule(upToAwait, face, now), << >>, now)
    IN
    /\ Len(st.v) <= MaxViolations
    /\ pipeline' = [ pipeline EXCEPT
                       !.detecting = @ \ { k },
                       !.awaiting = IF suspends THEN @ \cup { [ frame |-> k, face |-> face ] }
                                    ELSE @,
                       !.applied = k ]
    /\ inflight' = IF suspends THEN inflight ELSE inflight - 1
    /\ faceDetected' = face.hasFace
    /\ objectsDetected' = << >>
    /\ violations' = st.v
    /\ integrityScore' = st.s
    /\ violationCooldowns' = st.c
    /\ violationTimeouts' = st.to
    /\ hostTimers' = st.ht
    /\ objectCooldowns' = st.oc
    /\ emitted' = emitted \cup Emissions(st)
    /\ noFaceSince' = IF face.hasFace THEN 0
                      ELSE IF noFaceSince # 0 THEN noFaceSince ELSE now
    /\ UNCHANGED << now, isDetectorReady, identityVars, tickLog, timerLog, detector,
                    isRecording, startTime, endTime, totalDuration, tickPending,
                    cancelled, frameErrors >>

\* processDetectionResults from its await on: the looking-away rule and the
\* objects of the frame
OverlapResume ==
  \E a \in pipeline.awaiting :
    LET st == ProcessObjects(LookingAwayRule(Engine, a.face, now), << >>, now) IN
    /\ pipeline' = [ pipeline EXCEPT !.awaiting = @ \ { a } ]
    /\ inflight' = inflight - 1
    /\ violations' = st.v
    /\ integrityScore' = st.s
    /\ violationCooldowns' = st.c
    /\ violationTimeouts' = st.to
    /\ hostTimers' = st.ht
    /\ objectCooldowns' = st.oc
    /\ emitted' = emitted \cup Emissions(st)
    /\ UNCHANGED << now, isDetectorReady, identityVars, tickLog, timerLog, detector,
                    statusVars, startTime, endTime, totalDuration, tickPending,
                    noFaceSince, cancelled, frameErrors >>

OverlapAdvance == Elapse(SampleInterval, OverlapHorizon)

OverlapNext ==
  \/ pipeline.awaiting = {} /\ InitializeDetector
  \/ pipeline.awaiting = {} /\ StartMonitoring
  \/ pipeline.awaiting = {} /\ OverlapCapture
  \/ pipeline.awaiting = {} /\ OverlapAdvance
  \/ OverlapDetectionCompletes
  \/ OverlapResume

OverlapSpec == Init /\ [][OverlapNext]_vars

\* The program of ObjectSpec watched for longer than the label cooldown, with
\* a cell phone in every frame and a book in some.
BoundaryHorizon == T0 + MaxBoundarySteps * Step

BoundaryObjects == { << LabelCellPhone >>, << LabelCellPhone, LabelBook >> }

BoundaryDetectionCompletes ==
  \E objs \in BoundaryObjects : ProcessFrame(FacingResult, objs)

BoundaryAdvance == AdvanceTo(BoundaryHorizon)

BoundaryNext ==
  \/ InitializeDetector
  \/ StartMonitoring
  \/ CaptureFrame
  \/ BoundaryDetectionCompletes
  \/ BoundaryAdvance

BoundarySpec == Init /\ [][BoundaryNext]_vars

----------------------------------------------------------------------------
(* Properties *)

Abs(x) == IF x < 0 THEN -x ELSE x

IsPrefix(a, b) == Len(a) <= Len(b) /\ SubSeq(b, 1, Len(a)) = a

EventsOfType(type) == { i \in 1 .. Len(violations) : violations[i].type = type }

PendingOfType(type) == { tm \in hostTimers : tm.type = type }

StopStep == isRecording /\ ~isRecording'

\* a step that processes the results of a frame
FrameStep == inflight' < inflight

\* C1 as stated: any two events of one type in sessionData.violations were
\* emitted at least the type's cooldown apart.
C1_CooldownApart ==
  \A i, j \in 1 .. Len(violations) :
    (i # j /\ violations[i].type = violations[j].type)
      => Abs(violations[i].timestamp - violations[j].timestamp)
           >= getCooldownPeriod(violations[i].type)

\* C1 amended: any two events of one type that were emitted with no
\* stopMonitoring call between them are at least the type's cooldown apart;
\* the timeline holds exactly the emitted events.
C1_CooldownApartBetweenStops ==
  /\ \A a, b \in emitted :
       (a # b /\ a.type = b.type /\ a.live /\ b.live)
         => Abs(a.timestamp - b.timestamp) >= getCooldownPeriod(a.type)
  /\ Len(violations) >= Cardinality(emitted)
  /\ \A i \in 1 .. Len(violations) :
       \E a \in emitted : a.type = violations[i].type /\ a.timestamp = violations[i].timestamp
  /\ \A a \in emitted :
       \E i \in 1 .. Len(violations) :
         a.type = violations[i].type /\ a.timestamp = violations[i].timestamp

\* C1 witness: one type emitted twice with no stop in between
C1_Witness ==
  \E a, b \in emitted : a # b /\ a.type = b.type /\ a.live /\ b.live

\* C2: the stored integrityScore equals the score recomputed from the current
\* list of violations and lies within 0..100.
C2_ScoreInStep ==
  /\ integrityScore = calculateIntegrityScore(violations)
  /\ integrityScore >= 0
  /\ integrityScore <= 100

\* C2 witness: two events on the timeline, scored
C2_Witness == Len(violations) >= 2 /\ integrityScore < 100

\* C3: the previous list of violations is a prefix of the new one across
\* every step.
C3_AppendOnly == [][IsPrefix(violations, violations')]_vars

\* C4: at most one pending debounce timer per ViolationType, and every
\* pending timer is the one the map records for its type.
C4_OneTimerPerType ==
  /\ \A type \in ViolationType : Cardinality(PendingOfType(type)) <= 1
  /\ \A tm \in hostTimers :
       tm.type \in DOMAIN violationTimeouts /\ violationTimeouts[tm.type] = tm

\* C4 witness: a timer that has been pending for a while, with the condition
\* that armed it still showing
C4_Witness ==
  \E tm \in hostTimers :
    /\ tm.type = FACE_NOT_VISIBLE
    /\ tm.due < now + FaceNotVisibleDelay
    /\ noFaceSince # 0
    /\ noFaceSince < now

\* C5: stopMonitoring cancels every pending timer: right after it no timer
\* is armed and the map of timers is empty, so nothing that was pending can
\* fire later.
C5_StopCancelsTimers ==
  [][StopStep => (hostTimers' = {} /\ violationTimeouts' = EmptyMap)]_vars

\* C5 witness: a face-absence timer was pending at the stop, its delay has
\* elapsed since and no event was added
C5_Witness ==
  /\ endTime # 0
  /\ noFaceSince # 0
  /\ noFaceSince < endTime
  /\ endTime < noFaceSince + FaceNotVisibleDelay
  /\ now >= noFaceSince + FaceNotVisibleDelay
  /\ hostTimers = {}
  /\ EventsOfType(FACE_NOT_VISIBLE) = {}

\* C6: right after stopMonitoring both cooldown ledgers are empty.
C6_NoCooldownSurvivesStop ==
  [][StopStep => (violationCooldowns' = EmptyMap /\ objectCooldowns' = EmptyMap)]_vars

\* C7: at most one capture-to-detect cycle is in progress at any time.
C7_OneCycleAtATime == inflight <= 1

C8_EmitsWhen(type) ==
  type \notin DOMAIN violationCooldowns
    \/ now - violationCooldowns[type] >= getCooldownPeriod(type)

\* C8: addViolation emits exactly when the type has no recorded emission or
\* the cooldown has elapsed since it; an emission appends one event and
\* records now for the type and for no other; a second call within the
\* cooldown adds nothing and one at or after the cooldown adds a second event.
C8_AddViolationRule ==
  \A type \in ViolationType :
    LET cooldown == getCooldownPeriod(type) IN
    /\ \A severity \in Severity :
         LET r == addViolation(Engine, type, severity, now) IN
         IF C8_EmitsWhen(type)
           THEN /\ r.v = Append(violations, [ id |-> now, type |-> type,
                                              timestamp |-> now, severity |-> severity ])
                /\ r.c = MapSet(violationCooldowns, type, now)
           ELSE r = Engine
    /\ C8_EmitsWhen(type) =>
         LET r == addViolation(Engine, type, "medium", now) IN
         \A later \in { 0, cooldown - Step, cooldown, cooldown + Step } :
           Len(addViolation(r, type, "medium", now + later).v) =
             Len(violations) + (IF later < cooldown THEN 1 ELSE 2)

\* C8 witness: one type whose cooldown has exactly elapsed and one that is
\* still inside its cooldown
C8_Witness ==
  /\ \E type \in DOMAIN violationCooldowns :
       now - violationCooldowns[type] = getCooldownPeriod(type)
  /\ \E type \in DOMAIN violationCooldowns :
       now - violationCooldowns[type] < getCooldownPeriod(type)

\* C9: in a session that was never stopped and whose timeline was empty when
\* a run of hasFace=false frames began, once the run has lasted 10 s and the
\* timer armed by its first frame is no longer pending, the timeline holds
\* exactly one FaceNotVisible event, of severity high, stamped 10 s after the
\* first frame, and the score is 90 when nothing else was detected.
C9_ScenarioA ==
  ( /\ endTime = 0
    /\ noFaceSince # 0
    /\ now = noFaceSince + 10000
    /\ PendingOfType(FACE_NOT_VISIBLE) = {}
    /\ \A i \in 1 .. Len(violations) : violations[i].timestamp >= noFaceSince )
  => /\ Cardinality(EventsOfType(FACE_NOT_VISIBLE)) = 1
     /\ \A i \in EventsOfType(FACE_NOT_VISIBLE) :
          violations[i].severity = "high" /\ violations[i].timestamp = now
     /\ (Len(violations) = 1 => integrityScore = 90)

\* C9 witness: the run has lasted 10 s and the event is the only one
C9_Witness ==
  /\ endTime = 0
  /\ noFaceSince # 0
  /\ now = noFaceSince + 10000
  /\ PendingOfType(FACE_NOT_VISIBLE) = {}
  /\ Len(violations) = 1
  /\ violations[1].type = FACE_NOT_VISIBLE
  /\ integrityScore = 90

\* C10: a FaceNotVisible timer is armed only by a hasFace=false frame, for
\* 10 s; while it is pending no hasFace=true frame has been processed since
\* (such a frame leaves no FaceNotVisible timer pending); and a
\* FaceNotVisible event is added only by that timer firing when due.
C10_Pending ==
  \A tm \in PendingOfType(FACE_NOT_VISIBLE) :
    ~faceDetected /\ noFaceSince # 0 /\ noFaceSince <= tm.due - 10000 /\ tm.due <= now + 10000

C10_Steps ==
  /\ \A tm \in PendingOfType(FACE_NOT_VISIBLE)' \ PendingOfType(FACE_NOT_VISIBLE) :
       FrameStep /\ ~faceDetected' /\ tm.due = now + 10000
  /\ (FrameStep /\ faceDetected') => PendingOfType(FACE_NOT_VISIBLE)' = {}
  /\ (FrameStep /\ faceDetected' /\ PendingOfType(FACE_NOT_VISIBLE) = {}) =>
       (hostTimers' \ PendingOfType(LOOKING_AWAY)' = hostTimers \ PendingOfType(LOOKING_AWAY))
  /\ Cardinality(EventsOfType(FACE_NOT_VISIBLE)') > Cardinality(EventsOfType(FACE_NOT_VISIBLE)) =>
       \E tm \in PendingOfType(FACE_NOT_VISIBLE) :
         /\ tm.due = now
         /\ tm \notin hostTimers'
         /\ ~faceDetected
         /\ noFaceSince # 0 /\ noFaceSince <= now - 10000

\* C10: the two parts together, in every state and across every step
C10_FaceCancelsTimer == [](C10_Pending) /\ [][C10_Steps]_vars

\* C10 witness: a FaceNotVisible event is on the timeline and a hasFace=true
\* frame processed later found no timer to cancel
C10_Witness ==
  /\ EventsOfType(FACE_NOT_VISIBLE) # {}
  /\ faceDetected
  /\ PendingOfType(FACE_NOT_VISIBLE) = {}

----------------------------------------------------------------------------
(* Frame rules *)

TimersOfType(ht, type) == { tm \in ht : tm.type = type }

\* C11: a frame with hasFace, count > 1 and multipleFaces arms no timer for
\* MultipleFaces; when the type is not in its 15 s cooldown it appends one
\* MultipleFaces event of severity critical stamped now, which takes an empty
\* timeline's score to 80, and the same frame 5 s later adds nothing; when
\* the type is in cooldown the frame adds nothing.
C11_MultipleFacesImmediate ==
  \A face \in { f \in FaceInputs : f.hasFace /\ f.count > 1 /\ f.multipleFaces } :
    LET r == processDetectionResults(Engine, face, << >>, now)
        inCooldown == /\ MULTIPLE_FACES \in DOMAIN violationCooldowns
                      /\ now - violationCooldowns[MULTIPLE_FACES] < 15000
    IN
    /\ TimersOfType(r.ht, MULTIPLE_FACES) = {}
    /\ MULTIPLE_FACES \notin DOMAIN r.to
    /\ IF inCooldown
         THEN r.v = violations /\ r.s = integrityScore
         ELSE /\ r.v = Append(violations, [ id |-> now, type |-> MULTIPLE_FACES,
                                            timestamp |-> now, severity |-> "critical" ])
              /\ (violations = << >> => r.s = 80)
              /\ processDetectionResults(r, face, << >>, now + 5000).v = r.v

\* C11 witness: the event of a first frame is alone on the timeline, the score
\* is 80 and a frame has been processed 5 s later
C11_Witness ==
  /\ Len(violations) = 1
  /\ violations[1].type = MULTIPLE_FACES
  /\ violations[1].severity = "critical"
  /\ integrityScore = 80
  /\ now = violations[1].timestamp + 5000
  /\ isRecording /\ faceDetected /\ inflight = 0 /\ ~tickPending

\* a frame whose first face is looking away
IsAway(face) == face.hasFace /\ face.faces > 0 /\ face.isLookingAway

\* what a frame does to the LookingAway timer: a frame whose first face looks
\* away leaves one pending, armed for 5 s from now unless one was pending
\* already; a frame that is facing, has a face without face data or has no
\* face leaves none pending
C12_Frames ==
  \A face \in FaceInputs :
    LET r == processDetectionResults(Engine, face, << >>, now) IN
    IF IsAway(face)
      THEN /\ LOOKING_AWAY \in DOMAIN r.to
           /\ TimersOfType(r.ht, LOOKING_AWAY) = { r.to[LOOKING_AWAY] }
           /\ r.to[LOOKING_AWAY] =
                IF LOOKING_AWAY \in DOMAIN violationTimeouts
                  THEN violationTimeouts[LOOKING_AWAY]
                  ELSE [ type |-> LOOKING_AWAY, severity |-> "medium", due |-> now + 5000 ]
      ELSE /\ LOOKING_AWAY \notin DOMAIN r.to
           /\ TimersOfType(r.ht, LOOKING_AWAY) = {}

\* a LookingAway timer is armed only by a frame, with a face, for 5 s, and a
\* LookingAway event is added only by that timer firing when due
C12_Steps ==
  /\ \A tm \in PendingOfType(LOOKING_AWAY)' \ PendingOfType(LOOKING_AWAY) :
       FrameStep /\ faceDetected' /\ tm.due = now + 5000 /\ tm.severity = "medium"
  /\ Cardinality(EventsOfType(LOOKING_AWAY)') > Cardinality(EventsOfType(LOOKING_AWAY)) =>
       /\ ~FrameStep
       /\ \E tm \in PendingOfType(LOOKING_AWAY) : tm.due = now /\ tm \notin hostTimers'
       /\ violations' = Append(violations, [ id |-> now, type |-> LOOKING_AWAY,
                                             timestamp |-> now, severity |-> "medium" ])

\* C12: a LookingAway event (severity medium) comes only from the 5 s timer
\* armed by a frame whose first face looks away, and every frame that is
\* facing, has a face without face data or has no face cancels the pending
\* timer, so no such frame was processed while the timer that fired was
\* pending.
C12_LookingAwayDebounced == [](C12_Frames) /\ [][C12_Steps]_vars

\* C12 witness: the timer has just fired: a LookingAway event of severity
\* medium stamped now, 5 s after the frame that armed its timer
C12_Witness ==
  /\ faceDetected
  /\ PendingOfType(LOOKING_AWAY) = {}
  /\ \E i \in EventsOfType(LOOKING_AWAY) :
       violations[i].timestamp = now /\ violations[i].severity = "medium"

----------------------------------------------------------------------------
(* Object rules *)

NoClass == [ type |-> "none", severity |-> "none" ]

\* the classification of a lowercased label by keyword, in order of priority
ClassOf(key) ==
  IF includes(key, StrPhone) THEN [ type |-> PHONE_DETECTED, severity |-> "critical" ]
  ELSE IF includes(key, StrBook) THEN [ type |-> BOOK_DETECTED, severity |-> "high" ]
  ELSE IF includes(key, StrLaptop) \/ includes(key, StrTablet)
    THEN [ type |-> DEVICE_DETECTED, severity |-> "high" ]
  ELSE NoClass

\* C13: for every label whose lowercased form is not in label cooldown, the
\* object is classified by keyword with priority phone (PhoneDetected,
\* critical), book (BookDetected, high), laptop or tablet (DeviceDetected,
\* high): the event of that class is handed to addViolation and the label
\* cooldown is recorded; any other label changes nothing.
C13_Classification ==
  \A label \in ClassifierLabels :
    LET key == toLowerCase(label)
        r == ProcessObject(Engine, label, now)
        class == ClassOf(key)
        typeInCooldown == /\ class.type \in DOMAIN violationCooldowns
                          /\ now - violationCooldowns[class.type] < getCooldownPeriod(class.type)
    IN
    (key \notin DOMAIN objectCooldowns \/ now - objectCooldowns[key] > 30000) =>
      IF class = NoClass
        THEN r = Engine
        ELSE /\ r.oc = MapSet(objectCooldowns, key, now)
             /\ r.v = IF typeInCooldown THEN violations
                       ELSE Append(violations, [ id |-> now, type |-> class.type,
                                                 timestamp |-> now,
                                                 severity |-> class.severity ])
             /\ r.to = violationTimeouts /\ r.ht = hostTimers

\* C13 witness: a book has produced BookDetected (high) and its label cooldown,
\* and a mouse in the last frame has produced nothing
C13_Witness ==
  /\ objectsDetected = << LabelMouse >>
  /\ DOMAIN objectCooldowns = { LabelBook }
  /\ Len(violations) = 1
  /\ violations[1].type = BOOK_DETECTED
  /\ violations[1].severity = "high"

\* the PhoneDetected event a frame processed now adds
PhoneEvent ==
  [ id |-> now, type |-> PHONE_DETECTED, timestamp |-> now, severity |-> "critical" ]

\* C14: in a session with nothing but "cell phone" in view, a frame showing
\* the label adds one PhoneDetected event when the label was not seen before,
\* adds nothing up to 30 s after the detection that last added one (10 s
\* after it in particular), and adds a second event later than that (31 s
\* after it in particular); frames without the label add nothing.
C14_ScenarioC ==
  [][ FrameStep =>
        IF objectsDetected' = << LabelCellPhone >>
          THEN IF LabelCellPhone \notin DOMAIN objectCooldowns
                 THEN violations' = Append(violations, PhoneEvent)
               ELSE IF now - objectCooldowns[LabelCellPhone] <= 30000
                 THEN violations' = violations
               ELSE violations' = Append(violations, PhoneEvent)
          ELSE violations' = violations ]_vars

\* C14 witness: two PhoneDetected events, the second from the frame processed
\* 31 s after the first
C14_Witness ==
  /\ Len(violations) = 2
  /\ violations[1].type = PHONE_DETECTED
  /\ violations[2].type = PHONE_DETECTED
  /\ violations[2].timestamp = violations[1].timestamp + 31000
  /\ objectsDetected = << LabelCellPhone >>

----------------------------------------------------------------------------
(* Scoring rules *)

DeductionTable == [ low |-> 2, medium |-> 5, high |-> 10, critical |-> 20 ]

TypesIn(vs) == { vs[i].type : i \in 1 .. Len(vs) }

\* the deduction of the maximum severity seen for a type
MaxDeductionOf(vs, type) ==
  LET ds == { DeductionTable[vs[i].severity] : i \in { j \in 1 .. Len(vs) : vs[j].type = type } }
  IN CHOOSE d \in ds : \A e \in ds : e <= d

RECURSIVE SumOfMaxDeductions(_, _)
SumOfMaxDeductions(vs, types) ==
  IF types = {} THEN 0
  ELSE LET type == CHOOSE x \in types : TRUE IN
       MaxDeductionOf(vs, type) + SumOfMaxDeductions(vs, types \ { type })

RemoveAt(vs, i) == SubSeq(vs, 1, i - 1) \o SubSeq(vs, i + 1, Len(vs))

InsertAt(vs, pos, v) == SubSeq(vs, 1, pos) \o << v >> \o SubSeq(vs, pos + 1, Len(vs))

\* C15: the score of the list is max(0, 100 - D), D being the sum over the
\* distinct types present of the deduction (low 2, medium 5, high 10,
\* critical 20) of the maximum severity seen for the type; one critical, one
\* high and one medium event of three different types score 65.
C15_ScoreFormula ==
  LET D == SumOfMaxDeductions(violations, TypesIn(violations)) IN
  /\ calculateIntegrityScore(violations) = (IF 100 - D < 0 THEN 0 ELSE 100 - D)
  /\ calculateIntegrityScore(<< NewViolation(PHONE_DETECTED, "critical", now),
                                NewViolation(FACE_NOT_VISIBLE, "high", now),
                                NewViolation(LOOKING_AWAY, "medium", now) >>) = 65

\* C15 witness: one critical, one high and one medium event of three
\* different types, scored 65
C15_Witness ==
  /\ Len(violations) = 3
  /\ Cardinality(TypesIn(violations)) = 3
  /\ { violations[i].severity : i \in 1 .. 3 } = { "critical", "high", "medium" }
  /\ integrityScore = 65

\* C16: every permutation of the list has the score of the list.
C16_OrderIndependent ==
  \A p \in Permutations(1 .. Len(violations)) :
    calculateIntegrityScore([ i \in 1 .. Len(violations) |-> violations[p[i]] ])
      = calculateIntegrityScore(violations)

\* C16 witness: a type occurs twice, the more severe event first
C16_Witness ==
  \E i, j \in 1 .. Len(violations) :
    /\ i < j
    /\ violations[i].type = violations[j].type
    /\ DeductionTable[violations[i].severity] > DeductionTable[violations[j].severity]

\* C17: inserting at any position an event whose type is in the list and
\* whose severity is not above the maximum severity the list has for that
\* type leaves the score unchanged.
C17_DuplicateInsertion ==
  \A pos \in 0 .. Len(violations), type \in TypesIn(violations), severity \in Severity :
    DeductionTable[severity] <= MaxDeductionOf(violations, type) =>
      calculateIntegrityScore(InsertAt(violations, pos, NewViolation(type, severity, now)))
        = calculateIntegrityScore(violations)

\* C17 witness: the list holds an event that is such an insertion into the
\* rest of the list, and the stored score is the score of the rest
C17_Witness ==
  \E i \in 1 .. Len(violations) :
    LET rest == RemoveAt(violations, i) IN
    /\ violations[i].type \in TypesIn(rest)
    /\ DeductionTable[violations[i].severity] <= MaxDeductionOf(rest, violations[i].type)
    /\ integrityScore = calculateIntegrityScore(rest)
    /\ integrityScore < 100

----------------------------------------------------------------------------
(* Debounce timers *)

DelayOf(type) == IF type = FACE_NOT_VISIBLE THEN FaceNotVisibleDelay ELSE LookingAwayDelay

\* a request for a type whose timer is pending changes nothing, and so does
\* a frame that shows the condition of a pending timer
C18_Request ==
  /\ \A type \in DOMAIN violationTimeouts, severity \in Severity,
        delay \in { LookingAwayDelay, FaceNotVisibleDelay } :
       handleViolationTimeout(Engine, type, severity, delay, now) = Engine
  /\ \A face \in FaceInputs :
       LET r == processDetectionResults(Engine, face, << >>, now) IN
       /\ (~face.hasFace /\ FACE_NOT_VISIBLE \in DOMAIN violationTimeouts) =>
            /\ r.to[FACE_NOT_VISIBLE] = violationTimeouts[FACE_NOT_VISIBLE]
            /\ TimersOfType(r.ht, FACE_NOT_VISIBLE) = PendingOfType(FACE_NOT_VISIBLE)
       /\ (IsAway(face) /\ LOOKING_AWAY \in DOMAIN violationTimeouts) =>
            /\ r.to[LOOKING_AWAY] = violationTimeouts[LOOKING_AWAY]
            /\ TimersOfType(r.ht, LOOKING_AWAY) = PendingOfType(LOOKING_AWAY)

\* a timer is armed by a frame, for its delay from now, when none of its type
\* is pending; a frame that leaves a type pending leaves the same timer; and
\* a timer that goes without a frame or a stop fires when it is due, which
\* calls addViolation for its type
C18_Steps ==
  /\ \A tm \in hostTimers' \ hostTimers :
       /\ FrameStep
       /\ tm.due = now + DelayOf(tm.type)
       /\ PendingOfType(tm.type) = {}
       /\ tm.type \notin DOMAIN violationTimeouts
  /\ \A type \in DOMAIN violationTimeouts :
       (FrameStep /\ type \in DOMAIN violationTimeouts') =>
         /\ violationTimeouts'[type] = violationTimeouts[type]
         /\ PendingOfType(type)' = PendingOfType(type)
  /\ \A tm \in hostTimers \ hostTimers' :
       (~FrameStep /\ ~StopStep) =>
         /\ tm.due = now
         /\ violations' = addViolation(Engine, tm.type, tm.severity, now).v

\* C18: requesting a timer for a type that has one pending is a no-op: no
\* second timer is created and the pending one keeps its due time, its start
\* plus its delay, at which it fires, whatever frames showing the condition
\* are processed meanwhile.
C18_PendingRequestNoOp == [](C18_Request) /\ [][C18_Steps]_vars

\* C18 witness: the face-absence timer has just fired 10 s after the frame
\* that armed it, and a later frame without a face, the one that showed the
\* phone, was processed while it was pending
C18_Witness ==
  /\ noFaceSince # 0
  /\ now = noFaceSince + FaceNotVisibleDelay
  /\ ~faceDetected
  /\ \E i, j \in 1 .. Len(violations) :
       /\ violations[i].type = PHONE_DETECTED
       /\ noFaceSince < violations[i].timestamp
       /\ violations[i].timestamp < now
       /\ violations[j].type = FACE_NOT_VISIBLE
       /\ violations[j].timestamp = now

\* clearViolationTimeout removes the pending timer of the type, from the
\* host and from the map, and touches nothing else; with no pending timer of
\* the type it changes nothing
C19_Clear ==
  \A type \in ViolationType :
    LET r == clearViolationTimeout(Engine, type) IN
    IF type \in DOMAIN violationTimeouts
      THEN /\ r.ht = hostTimers \ { violationTimeouts[type] }
           /\ TimersOfType(r.ht, type) = {}
           /\ DOMAIN r.to = DOMAIN violationTimeouts \ { type }
           /\ \A other \in DOMAIN r.to : r.to[other] = violationTimeouts[other]
           /\ r.v = violations /\ r.s = integrityScore
           /\ r.c = violationCooldowns /\ r.oc = objectCooldowns
      ELSE r = Engine

\* the step that cancels a timer removes it, adds no event of its type and
\* leaves the ledger entry of its type alone; an event of a debounced type is
\* added only by a timer that is pending and due; and a timer becomes pending
\* only by a frame arming it for its full delay
C19_Steps ==
  /\ \A tm \in cancelled' \ cancelled :
       /\ FrameStep
       /\ tm \in hostTimers /\ tm.due >= now
       /\ PendingOfType(tm.type)' = {}
       /\ tm.type \notin DOMAIN violationTimeouts'
       /\ Cardinality(EventsOfType(tm.type)') = Cardinality(EventsOfType(tm.type))
       /\ GetOrZero(violationCooldowns', tm.type) = GetOrZero(violationCooldowns, tm.type)
  /\ \A type \in { FACE_NOT_VISIBLE, LOOKING_AWAY } :
       Cardinality(EventsOfType(type)') > Cardinality(EventsOfType(type)) =>
         \E tm \in PendingOfType(type) : tm.due = now /\ tm \notin hostTimers'
  /\ \A tm \in hostTimers' \ hostTimers :
       FrameStep /\ tm.due = now + DelayOf(tm.type)

\* C19: cancelling a pending timer removes it without firing it: the
\* cancelled timer adds no event and does not touch the cooldown ledger, then
\* or later; cancelling a type that has no pending timer changes nothing.
C19_CancelNeverFires == [](C19_Clear) /\ [][C19_Steps]_vars

\* C19 witness: a timer was cancelled, its due time has passed, and its type
\* has no event, no ledger entry and no timer
C19_Witness ==
  \E tm \in cancelled :
    /\ now >= tm.due
    /\ EventsOfType(tm.type) = {}
    /\ tm.type \notin DOMAIN violationCooldowns
    /\ PendingOfType(tm.type) = {}

----------------------------------------------------------------------------
(* Frame errors *)

\* a step in which the capture or the detection of a frame raises an error
ErrorStep == Len(frameErrors') > Len(frameErrors)

----------------------------------------------------------------------------
(* Session control *)

\* a step in which processVideoFrame is called for a sampling tick
TickStep == tickLog'.n > tickLog.n

\* C21: a sampling tick made while monitoring is not recording, while the
\* detector is not ready, or with a video that has no decoded dimensions
\* starts no detection and changes no status, session data, timer or
\* cooldown, and raises no error.
C21_IdleTickNoOp ==
  [][( /\ TickStep
       /\ \/ ~isRecording
          \/ ~isDetectorReady
          \/ tickLog'.video.videoWidth = 0
          \/ tickLog'.video.videoHeight = 0 )
     => UNCHANGED << inflight, isDetectorReady, statusVars, sessionVars, identityVars,
                     timerVars, cooldownVars, emitted, frameErrors >>]_vars

\* C21 witness: the last tick was made while recording, with the detector
\* ready and a loaded video without dimensions, and no detection is under way
C21_Witness ==
  /\ isRecording /\ isDetectorReady /\ endTime = 0
  /\ tickLog.n > 0
  /\ tickLog.at > startTime
  /\ tickLog.video.readyState = 4
  /\ tickLog.video.videoWidth = 0
  /\ inflight = 0

StartStep == ~isRecording /\ isRecording'

\* C22: start() sets isRecording and sets startTime to now; it leaves the
\* timeline, the score, the session id, the candidate name, the pending
\* timers and both cooldown ledgers as they are, after a stop() too.
C22_StartKeepsSession ==
  [][StartStep =>
       /\ isRecording' = TRUE
       /\ startTime' = now
       /\ UNCHANGED << violations, integrityScore, identityVars, timerVars,
                       cooldownVars >>]_vars

\* C22 witness: monitoring has just been started again after a stop, with
\* an event on the timeline and a timer and a ledger entry that a frame left
\* between the stop and the start
C22_Witness ==
  /\ isRecording
  /\ endTime # 0
  /\ endTime < startTime
  /\ startTime = now
  /\ Len(violations) > 0
  /\ \E tm \in hostTimers :
       endTime <= tm.due - DelayOf(tm.type) /\ tm.due - DelayOf(tm.type) < startTime
  /\ \E type \in DOMAIN violationCooldowns :
       endTime <= violationCooldowns[type] /\ violationCooldowns[type] < startTime

\* the whole seconds in ms milliseconds
FloorSeconds(ms) == CHOOSE q \in 0 .. ms : q * 1000 <= ms /\ ms < (q + 1) * 1000

\* C23: stop() clears isRecording, sets endTime to now and totalDuration to
\* the whole seconds from startTime, which only start() sets, to now; it
\* leaves the timeline and the score as they are.
C23_StopSetsDuration ==
  [][/\ StopStep =>
          /\ isRecording' = FALSE
          /\ endTime' = now
          /\ totalDuration' = FloorSeconds(now - startTime)
          /\ UNCHANGED << violations, integrityScore, startTime >>
     /\ startTime' # startTime => (StartStep /\ startTime' = now)]_vars

\* C23 witness: a second period of monitoring was stopped after a second
\* and a half: the duration is 1
C23_Witness ==
  /\ ~isRecording
  /\ \E i \in 1 .. Len(violations) : violations[i].timestamp < startTime
  /\ endTime = startTime + SampleInterval
  /\ totalDuration = 1

----------------------------------------------------------------------------
(* Initialization of the detector *)

\* C24: when exactly one of the two models fails to load, initialize()
\* completes without error and the detector is initialized and ready; the
\* capability whose model is missing goes to its backup routine and the
\* other to its model.
C24_PartialFailureNotFatal ==
  /\ \A faceLoads \in BOOLEAN, objectLoads \in BOOLEAN :
       faceLoads # objectLoads =>
         LET r == initialize(NewDetector, TRUE, faceLoads, objectLoads) IN
         /\ ~r.threw
         /\ r.detector.isInitialized
         /\ detectFacesUsesBackup(r.detector) = ~faceLoads
         /\ detectObjectsUsesBackup(r.detector) = ~objectLoads
  /\ detector.faceDetector # detector.objectDetector =>
       /\ isDetectorReady
       /\ detector.isInitialized
       /\ detectFacesUsesBackup(detector) = ~detector.faceDetector
       /\ detectObjectsUsesBackup(detector) = ~detector.objectDetector
       /\ objectsDetected = << LabelPhone >> => ~detector.objectDetector
       /\ objectsDetected = << LabelCellPhone >> => detector.objectDetector

\* C24 witness: only the face model loaded, and the backup routine for
\* objects reported the phone that is on the timeline
C24_Witness ==
  /\ isDetectorReady
  /\ detector.faceDetector /\ ~detector.objectDetector
  /\ objectsDetected = << LabelPhone >>
  /\ EventsOfType(PHONE_DETECTED) # {}

\* C25: when the backend is wholly unavailable, no model having been
\* loaded by a finished initialize(), the detector is not reported ready.
C25_UnavailableFails ==
  (detector.isInitialized /\ ~detector.faceDetector /\ ~detector.objectDetector)
    => ~isDetectorReady

----------------------------------------------------------------------------
(* Emissions *)

\* the types whose entry of the cooldown ledger is written in the step
LedgerWrites ==
  { type \in DOMAIN violationCooldowns' :
      /\ violationCooldowns'[type] = now
      /\ type \notin DOMAIN violationCooldowns \/ violationCooldowns[type] # now }

\* the callback of a timer of type and a direct call for other, in this order
TimerThenDirect(type, other) ==
  addViolation(addViolation(Engine, type, "medium", now), other, "medium", now)

\* two calls of addViolation that pass their cooldown checks add two events
\* and write two ledger entries, in either order; for one type the second
\* call is suppressed
C26_Calls ==
  \A type \in { FACE_NOT_VISIBLE, LOOKING_AWAY } :
  \A other \in DirectTypes \cup { PHONE_DETECTED, type } :
    LET a == TimerThenDirect(type, other)
        b == addViolation(addViolation(Engine, other, "medium", now), type, "medium", now)
        event(x) == NewViolation(x, "medium", now)
    IN
    ( ~InCooldown(violationCooldowns, type, now)
      /\ ~InCooldown(violationCooldowns, other, now) ) =>
      IF type = other
        THEN a.v = Append(violations, event(type)) /\ b = a
        ELSE /\ a.v = violations \o << event(type), event(other) >>
             /\ b.v = violations \o << event(other), event(type) >>
             /\ a.c = b.c
             /\ a.c[type] = now /\ a.c[other] = now
             /\ a.s = b.s

\* every step lengthens the timeline by the number of ledger entries it
\* writes and keeps every event that was on it
C26_Steps ==
  /\ Len(violations') = Len(violations) + Cardinality(LedgerWrites)
  /\ \A i \in 1 .. Len(violations) :
       Cardinality({ j \in 1 .. Len(violations') : violations'[j] = violations[i] })
         >= Cardinality({ j \in 1 .. Len(violations) : violations[j] = violations[i] })

\* C26: no update is lost between emitters: when a timer callback and a
\* direct call of addViolation both pass their cooldown checks, in either
\* order, both events are on the timeline and both ledger entries are
\* written, and the timeline grows by exactly the emissions that were not
\* suppressed.
C26_NoLostUpdate == [](C26_Calls) /\ [][C26_Steps]_vars

\* C26 witness: the callback of the looking-away timer and a direct call
\* both added their event at the same instant, the direct call first
C26_Witness ==
  /\ Len(violations) = 2
  /\ violations[1].type \in DirectTypes
  /\ violations[2].type = LOOKING_AWAY
  /\ violations[1].timestamp = now /\ violations[2].timestamp = now
  /\ violationCooldowns[violations[1].type] = now
  /\ violationCooldowns[LOOKING_AWAY] = now
  /\ hostTimers = {}

\* C27: the timeline is in chronological order: timestamps never decrease
\* along sessionData.violations.
C27_Chronological ==
  \A i, j \in 1 .. Len(violations) :
    i < j => violations[i].timestamp <= violations[j].timestamp

----------------------------------------------------------------------------
(* Label cooldowns and type cooldowns *)

\* what C29 requires of a step that processes a frame with one object in it
C29_Steps ==
  LET label == objectsDetected'[1]
      key == toLowerCase(label)
      class == ClassOf(key)
      passes == now - GetOrZero(objectCooldowns, key) > ObjectCooldownPeriod
  IN
  IF passes /\ class # NoClass
    THEN /\ objectCooldowns' = MapSet(objectCooldowns, key, now)
         /\ InCooldown(violationCooldowns, class.type, now) =>
              /\ violations' = violations
              /\ violationCooldowns' = violationCooldowns
    ELSE objectCooldowns' = objectCooldowns

\* C29: when a label of class phone, book, laptop or tablet passes its own
\* cooldown check, the frame sets the label's cooldown timestamp to now and
\* leaves the other labels' timestamps alone, also when the cooldown of the
\* event type suppresses the event (the list and the per-type ledger are then
\* unchanged); a label that fails its check or has no class changes no
\* label timestamp.
C29_LabelLedgerIndependent ==
  [][ FrameStep /\ Len(objectsDetected') = 1 => C29_Steps ]_vars

\* C29 witness: "phone" has just passed its label check and its timestamp is
\* now, while the PhoneDetected event it asked for was suppressed: the only
\* PhoneDetected event is the earlier one of "cell phone"
C29_Witness ==
  /\ objectsDetected = << LabelPhone >>
  /\ LabelPhone \in DOMAIN objectCooldowns
  /\ objectCooldowns[LabelPhone] = now
  /\ LabelCellPhone \in DOMAIN objectCooldowns
  /\ objectCooldowns[LabelCellPhone] < now
  /\ violationCooldowns[PHONE_DETECTED] = objectCooldowns[LabelCellPhone]
  /\ Len(violations) = 1
  /\ violations[1].type = PHONE_DETECTED
  /\ violations[1].timestamp = objectCooldowns[LabelCellPhone]

\* what C30 requires of a call of addViolation made now
C30_Calls ==
  \A type \in ViolationType, severity \in Severity :
    LET r == addViolation(Engine, type, severity, now) IN
    InCooldown(violationCooldowns, type, now) =>
      /\ r.v = violations
      /\ r.s = integrityScore
      /\ DOMAIN r.c = DOMAIN violationCooldowns
      /\ \A other \in DOMAIN r.c : r.c[other] = violationCooldowns[other]
      /\ r.to = violationTimeouts /\ r.ht = hostTimers
      /\ addViolationToasts(Engine, type, severity, now) = << >>

\* what C30 requires of a step that processes a frame with one object in it
\* whose label passes its check while the type of its class is in cooldown
C30_Steps ==
  LET key == toLowerCase(objectsDetected'[1])
      class == ClassOf(key)
  IN
  ( /\ now - GetOrZero(objectCooldowns, key) > ObjectCooldownPeriod
    /\ class # NoClass
    /\ InCooldown(violationCooldowns, class.type, now) ) =>
    /\ violations' = violations
    /\ integrityScore' = integrityScore
    /\ violationCooldowns' = violationCooldowns
    /\ emitted' = emitted

\* C30: a call of addViolation for a type in cooldown leaves the list, the
\* score and every entry of the per-type ledger as they were and shows no
\* toast; a frame whose only call of addViolation is suppressed leaves them
\* as they were.
C30_SuppressedNoOp ==
  [](C30_Calls) /\ [][ FrameStep /\ Len(objectsDetected') = 1 => C30_Steps ]_vars

\* C30 witness: "cell phone" has just been handed to addViolation 5 s or more
\* after "phone" produced PhoneDetected, and the call was suppressed: the
\* list, the score and the ledger are those of the first event
C30_Witness ==
  /\ objectsDetected = << LabelCellPhone >>
  /\ LabelCellPhone \in DOMAIN objectCooldowns
  /\ objectCooldowns[LabelCellPhone] = now
  /\ LabelPhone \in DOMAIN objectCooldowns
  /\ objectCooldowns[LabelPhone] < now
  /\ violations = << NewViolation(PHONE_DETECTED, "critical", objectCooldowns[LabelPhone]) >>
  /\ integrityScore = calculateIntegrityScore(violations)
  /\ DOMAIN violationCooldowns = { PHONE_DETECTED }
  /\ violationCooldowns[PHONE_DETECTED] = objectCooldowns[LabelPhone]

\* C28: any two distinct events of sessionData.violations have different ids,
\* events of different types emitted for the same frame included.
C28_UniqueIds ==
  \A i, j \in 1 .. Len(violations) :
    i # j => violations[i].id # violations[j].id

----------------------------------------------------------------------------
(* Frames in flight *)

\* C31: between stopMonitoring and the next startMonitoring the processing of
\* a frame appends no event to the timeline and arms no timer.
C31_QuietWhileStopped ==
  [][ (FrameStep /\ ~isRecording) =>
        /\ violations' = violations
        /\ hostTimers' \subseteq hostTimers
        /\ DOMAIN violationTimeouts' \subseteq DOMAIN violationTimeouts ]_vars

----------------------------------------------------------------------------
(* The score over time *)

\* C32: integrityScore never increases: no step, be it an emission of a
\* frame or of a timer, a start, a stop or a start after a stop, ends with a
\* score above the one it began with.
C32_ScoreNeverIncreases == [][ integrityScore' <= integrityScore ]_vars

\* C32 witness: a session that was stopped and started again, with one event
\* from before the stop and one from after the restart, and a score below
\* the one it had at the restart
C32_Witness ==
  /\ isRecording
  /\ endTime # 0
  /\ startTime >= endTime
  /\ Len(violations) = 2
  /\ \E i, j \in 1 .. 2 :
       /\ violations[i].timestamp < endTime
       /\ violations[j].timestamp > startTime
       /\ violations[i].type # violations[j].type
       /\ integrityScore < calculateIntegrityScore(<< violations[i] >>)

----------------------------------------------------------------------------
(* Severities of the rules *)

\* the severity the claims fix for each type the rules emit
FixedSeverity ==
  [ type \in { FACE_NOT_VISIBLE, MULTIPLE_FACES, LOOKING_AWAY,
               PHONE_DETECTED, BOOK_DETECTED, DEVICE_DETECTED } |->
      CASE type = FACE_NOT_VISIBLE -> "high"
        [] type = MULTIPLE_FACES -> "critical"
        [] type = LOOKING_AWAY -> "medium"
        [] type = PHONE_DETECTED -> "critical"
        [] type = BOOK_DETECTED -> "high"
        [] type = DEVICE_DETECTED -> "high" ]

\* C33: every event the frames and the timers put on the timeline, and every
\* event a pending timer is going to ask for, has the severity fixed for its
\* type: FaceNotVisible high, MultipleFaces critical, LookingAway medium,
\* PhoneDetected critical, BookDetected high, DeviceDetected high; none is of
\* type CandidateAbsent.
C33_FixedSeverities ==
  /\ \A i \in 1 .. Len(violations) :
       /\ violations[i].type # CANDIDATE_ABSENT
       /\ violations[i].type \in DOMAIN FixedSeverity
       /\ violations[i].severity = FixedSeverity[violations[i].type]
  /\ \A tm \in hostTimers :
       /\ tm.type \in { FACE_NOT_VISIBLE, LOOKING_AWAY }
       /\ tm.severity = FixedSeverity[tm.type]

\* C33 witness: the timeline holds events of both timers, of several faces
\* and of an object
C33_Witness ==
  /\ { FACE_NOT_VISIBLE, LOOKING_AWAY, MULTIPLE_FACES } \subseteq TypesIn(violations)
  /\ \E i \in 1 .. Len(violations) :
       violations[i].type \in { PHONE_DETECTED, BOOK_DETECTED, DEVICE_DETECTED }

\* C34: with the frames and their timers as the only source of events the
\* score is 25 at least, and it is 25 exactly when the timeline holds all
\* six types the rules emit.
C34_ScoreFloor ==
  /\ integrityScore >= 25
  /\ integrityScore = 25 <=> TypesIn(violations) = DOMAIN FixedSeverity

\* C34 witness: the timeline holds one event of each of the six types and
\* the score is at its floor
C34_Witness ==
  /\ Len(violations) = Cardinality(DOMAIN FixedSeverity)
  /\ integrityScore = 25

----------------------------------------------------------------------------
(* Timers that fire inside the cooldown *)

\* whether a frame with this face result shows the condition of the type
ShowsCondition(face, type) ==
  CASE type = FACE_NOT_VISIBLE -> ~face.hasFace
    [] type = LOOKING_AWAY -> face.hasFace /\ face.faces > 0 /\ face.isLookingAway
    [] OTHER -> FALSE

\* what C35 requires of a step
C35_Steps ==
  /\ \A e \in timerLog' \ timerLog :
       InCooldown(violationCooldowns, e.type, now) =>
         /\ violations' = violations
         /\ integrityScore' = integrityScore
         /\ violationCooldowns' = violationCooldowns
         /\ emitted' = emitted
         /\ e.type \notin DOMAIN violationTimeouts'
         /\ PendingOfType(e.type)' = {}
  /\ \A tm \in hostTimers' \ hostTimers :
       /\ FrameStep
       /\ \E face \in FaceResults :
            /\ ShowsCondition(face, tm.type)
            /\ faceDetected' = face.hasFace
            /\ hostTimers' = processDetectionResults(Engine, face, objectsDetected', now).ht

\* C35: a timer that fires while its type is in cooldown adds no event,
\* changes neither the score nor the ledger, and leaves no timer of its type
\* behind: its entry is removed and nothing is scheduled in its place; a
\* timer appears only in a step that processes a frame showing its condition.
C35_SuppressedTimerNotRescheduled == [][C35_Steps]_vars

\* C35 witness: a timer callback has just run inside the cooldown of its
\* type: the only event of the type is the earlier one, and no timer of the
\* type is pending
C35_Witness ==
  \E e \in timerLog :
    /\ e.at = now
    /\ ~e.added
    /\ e.type \notin DOMAIN violationTimeouts
    /\ PendingOfType(e.type) = {}
    /\ Cardinality(EventsOfType(e.type)) = 1
    /\ \A i \in EventsOfType(e.type) : violations[i].timestamp < now

----------------------------------------------------------------------------
(* Frames that overlap *)

\* C36: when no frame is in the middle of processDetectionResults, at most
\* one of the FaceNotVisible and LookingAway timers is pending.
C36_OneFaceTimer ==
  pipeline.awaiting = {} =>
    ~( /\ FACE_NOT_VISIBLE \in DOMAIN violationTimeouts
       /\ LOOKING_AWAY \in DOMAIN violationTimeouts )

\* C37: setMonitoringStatus and the timer decisions of a frame are never
\* followed by those of a frame captured earlier.
C37_CaptureOrder == [][ pipeline'.applied >= pipeline.applied ]_vars

----------------------------------------------------------------------------
(* The boundary of the label cooldown *)

PhoneEvents == Cardinality(EventsOfType(PHONE_DETECTED))

\* what C38 requires of a step that processes a frame whose first object is
\* "cell phone"
C38_Steps ==
  LET recorded == LabelCellPhone \in DOMAIN objectCooldowns
      passes == ~recorded \/ now - objectCooldowns[LabelCellPhone] > ObjectCooldownPeriod
  IN
  IF passes
    THEN objectCooldowns'[LabelCellPhone] = now
    ELSE /\ objectCooldowns'[LabelCellPhone] = objectCooldowns[LabelCellPhone]
         /\ PhoneEvents' = PhoneEvents

\* C38: a label passes its cooldown check only when it was never recorded or
\* more than 30 s have passed since its recorded detection; a frame showing
\* it 30 s or less after the recorded detection, exactly 30 s included, adds
\* no event for it and leaves its timestamp as it was.
C38_StrictLabelCooldown ==
  [][ (FrameStep /\ objectsDetected'[1] = LabelCellPhone) => C38_Steps ]_vars

\* C38 witness: a frame with a cell phone and a book has just been processed
\* exactly 30 s after the cell phone was recorded: the book is recorded now,
\* the cell phone keeps its timestamp and its one event
C38_Witness ==
  /\ objectsDetected = << LabelCellPhone, LabelBook >>
  /\ LabelBook \in DOMAIN objectCooldowns
  /\ objectCooldowns[LabelBook] = now
  /\ LabelCellPhone \in DOMAIN objectCooldowns
  /\ objectCooldowns[LabelCellPhone] = now - ObjectCooldownPeriod
  /\ PhoneEvents = 1
  /\ \A i \in EventsOfType(PHONE_DETECTED) :
       violations[i].timestamp = now - ObjectCooldownPeriod

----------------------------------------------------------------------------
(* Start and end of the session *)

\* C39: whenever endTime is set it is not earlier than startTime.
C39_EndNotBeforeStart == endTime # 0 => endTime >= startTime

----------------------------------------------------------------------------
(* A failed initialization *)

\* initialize() has thrown: the detector is left initialized, the hook is
\* not ready
InitializationFailed == detector.isInitialized /\ ~isDetectorReady

\* C40: once initialize() has failed, isDetectorReady stays false for good,
\* the detector is left initialized in backup mode, and no tick starts a
\* detection: no frame is in flight, the timeline is empty and no timer is
\* armed, whatever the consumer starts and however many ticks it makes.
C40_FailedInitStaysOff ==
  /\ [](InitializationFailed =>
          /\ detector.useBackupDetection
          /\ inflight = 0
          /\ violations = << >>
          /\ integrityScore = 100
          /\ hostTimers = {}
          /\ violationTimeouts = EmptyMap
          /\ violationCooldowns = EmptyMap /\ objectCooldowns = EmptyMap)
  /\ [][ InitializationFailed => InitializationFailed' ]_vars

\* C40 witness: initialization failed, monitoring was started all the same,
\* and a tick was made later with a video ready to be captured: nothing is
\* in flight
C40_Witness ==
  /\ InitializationFailed
  /\ isRecording
  /\ tickLog.n > 0
  /\ tickLog.at > startTime
  /\ tickLog.video \in ReadyVideos
  /\ inflight = 0

=============================================================================
